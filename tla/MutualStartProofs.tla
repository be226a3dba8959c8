------------------------- MODULE MutualStartProofs -------------------------
(***************************************************************************)
(* Theorems about MutualStart, for every argument list, file, chip and     *)
(* worker.  The inductive invariant, StartInv, has a part for each of the  *)
(* modules that MutualStart is composed of:                                *)
(*   OptionsInv   the types of the settings;                               *)
(*   SettingsInv  which file the first loop of main has chosen, which of   *)
(*                its lines have been obeyed, which options;               *)
(*   SettledInv   what init_mpipe_resource has compared at each stage;     *)
(*   ChipInv      what the chip has been told at each stage: RingsInv,     *)
(*                MemoryInv and RulesInv;                                  *)
(*   WorkersInv   each worker's settings have gone as far as its packets;  *)
(*   DmacInv      the rules are for the address that packets are sent to.  *)
(* The rest are lemmas about what the operators of the model compute:      *)
(* sizes of pages, buckets, rings, the sweep of a range, carries.          *)
(***************************************************************************)
EXTENDS MutualStart, FiniteSetTheorems, WellFoundedInduction, TLAPS

(***************************************************************************)
(* The steps, by what they leave alone.                                    *)
(***************************************************************************)

\* The process ends after its settings are complete.
Ends ==
  /\ pc = "generator" /\ pc' = "ended" /\ status' \in {"died", "crashed"}
  /\ UNCHANGED <<argv, i, config_file, rest, config, text, complained>>

Quiet == UNCHANGED optionVars \/ Ends

LEMMA ChipQuiet ==
  ASSUME MpipeInitNext
  PROVE  Quiet
<1> USE DEF Quiet, Ends, Then, Succeeds, At, End
<1>1. CASE Crash \/ Die
  BY <1>1 DEF Crash, Die
<1>2. CASE CopyConfig \/ CheckCpus \/ StartDriver \/ OpenReceiver \/ OpenSender
  BY <1>2 DEF CopyConfig, CheckCpus, StartDriver, OpenReceiver, OpenSender
<1>3. CASE AllocRings \/ InitIqueue \/ IqueuesDone \/ AllocGroups \/ AllocBuckets
  BY <1>3 DEF AllocRings, InitIqueue, IqueuesDone, AllocGroups, AllocBuckets
<1>4. CASE InitEqueue \/ AllocStack \/ create_stack \/ AddRule \/ RulesDone \/ Commit
  BY <1>4 DEF InitEqueue, AllocStack, create_stack, AddRule, RulesDone, Commit
<1> QED
  BY <1>1, <1>2, <1>3, <1>4 DEF MpipeInitNext

LEMMA NextCases ==
  ASSUME [Next]_vars
  PROVE  \/ MutualOptionsNext /\ UNCHANGED <<initVars, generator, made>>
         \/ MpipeInitNext /\ UNCHANGED <<generator, made>>
         \/ CreateWorker
         \/ \E w \in DOMAIN made : MakePacket(w)
         \/ \E w \in DOMAIN made : Overwrite(w)
         \/ UNCHANGED vars
BY DEF Next, Starting, Terminating

LEMMA StepCases ==
  ASSUME [Next]_vars
  PROVE  MutualOptionsNext \/ Quiet
<1>1. ASSUME CreateWorker
      PROVE  Quiet
  BY <1>1 DEF CreateWorker, Quiet
<1>2. ASSUME NEW w, MakePacket(w)
      PROVE  Quiet
  BY <1>2 DEF MakePacket, Quiet
<1>3. ASSUME NEW w, Overwrite(w)
      PROVE  Quiet
  BY <1>3 DEF Overwrite, MayMake, At, End, Quiet, Ends
<1>4. UNCHANGED vars => Quiet
  BY DEF vars, Quiet
<1> QED
  BY <1>1, <1>2, <1>3, <1>4, NextCases, ChipQuiet

(***************************************************************************)
(* The settings.                                                           *)
(***************************************************************************)

ConfigOK(c) ==
  /\ c = [f \in Settings |-> c[f]]
  /\ \A f \in Plain \cup {"dmac"} : c[f] \in Nat
  /\ \A f \in Ranges : /\ c[f] \in [{"min", "cur", "max"} -> 0 .. Uint32 - 1]
                         /\ c[f].cur = c[f].min

OptionsInv ==
  /\ pc \in {"scan", "file", "options", "generator", "ended"}
  /\ argv \in Seq(STRING)
  /\ i \in 1 .. Len(argv) + 1
  /\ status \in {"none", "0", "-1", "died", "crashed"}
  /\ pc = "ended" <=> status # "none"
  /\ rest \in Seq(Lines)
  /\ ConfigOK(config)
  /\ complained \in BOOLEAN

LEMMA FieldsDisjoint ==
  /\ \A f \in Plain \cup {"dmac"} : f \notin Ranges \cup Pointers /\ f \in Settings
  /\ \A f \in Ranges : f \notin Pointers \cup Plain \cup {"dmac"} /\ f \in Settings
  /\ \A f \in Pointers : f \notin Plain \cup {"dmac"} /\ f \in Settings
  /\ "dmac" \notin Plain
  /\ "dstmac" \in Plain
BY DEF Plain, Ranges, Pointers, Names, Settings

LEMMA FromToType ==
  ASSUME NEW first \in 0 .. Uint32 - 1, NEW plus \in Nat
  PROVE  /\ FromTo(first, plus) \in [{"min", "cur", "max"} -> 0 .. Uint32 - 1]
         /\ FromTo(first, plus).cur = FromTo(first, plus).min
<1>1. (first + plus) % Uint32 \in 0 .. Uint32 - 1
  BY InputAssumption
<1>2. FromTo(first, plus) = [min |-> first, cur |-> first, max |-> (first + plus) % Uint32]
  BY DEF FromTo
<1> QED
  BY <1>1, <1>2

LEMMA ConfigPlain ==
  ASSUME NEW c, ConfigOK(c), NEW f \in Plain \cup {"dmac"}, NEW v \in Nat
  PROVE  ConfigOK([c EXCEPT ![f] = v])
BY FieldsDisjoint DEF ConfigOK

LEMMA ConfigPointer ==
  ASSUME NEW c, ConfigOK(c), NEW f \in Pointers, NEW v
  PROVE  ConfigOK([c EXCEPT ![f] = v])
BY FieldsDisjoint DEF ConfigOK

LEMMA ConfigRange ==
  ASSUME NEW c, ConfigOK(c), NEW f \in Ranges,
         NEW first \in 0 .. Uint32 - 1, NEW plus \in Nat
  PROVE  ConfigOK([c EXCEPT ![f] = FromTo(first, plus)])
<1> DEFINE r == FromTo(first, plus)
<1>1. r \in [{"min", "cur", "max"} -> 0 .. Uint32 - 1] /\ r.cur = r.min
  BY FromToType
<1> HIDE DEF r
<1>2. ConfigOK([c EXCEPT ![f] = r])
  BY <1>1, FieldsDisjoint DEF ConfigOK
<1> QED
  BY <1>2 DEF r

LEMMA OptionFields ==
  \A o \in DOMAIN OptionField : OptionField[o] \in Plain \cup Names
BY DEF OptionField, Plain, Names

\* What a line of a file says.
LEMMA LineTypes ==
  ASSUME NEW line \in Lines
  PROVE  /\ line.newline \in BOOLEAN
         /\ line.field \in Plain => line.value \in Nat
         /\ line.field \in Ranges =>
              /\ line.value.got \in Int /\ line.value.plus \in Nat
              /\ First(line) \subseteq 0 .. Uint32 - 1
              /\ Counter(line) \subseteq Nat
<1>1. line.newline \in BOOLEAN
  BY DEF Lines
<1>2. ASSUME line.field \in Plain
      PROVE  line.value \in Nat
  BY <1>2, FieldsDisjoint DEF Lines, Plain
<1>3. ASSUME line.field \in Ranges
      PROVE  line.value \in Read
  BY <1>3, FieldsDisjoint DEF Lines, Ranges
<1>4. ASSUME line.field \in Ranges
      PROVE  /\ line.value.got \in Int /\ line.value.plus \in Nat
             /\ line.value.first \in 0 .. Uint32 - 1
  BY <1>4, <1>3 DEF Read
<1>5. Garbage \subseteq 0 .. Uint32 - 1 /\ Uint32 \in Nat \ {0}
  BY InputAssumption
<1> QED
  BY <1>1, <1>2, <1>4, <1>5 DEF First, Counter

LEMMA AssignKeeps ==
  ASSUME NEW line \in Lines, ConfigOK(config), Assign(line)
  PROVE  ConfigOK(config')
<1>1. CASE line.field \in Ranges
  <2>1. PICK first \in First(line), counter \in Counter(line) :
          config' = [config EXCEPT ![line.field] = FromTo(first, counter)]
    BY <1>1, FieldsDisjoint DEF Assign
  <2>2. first \in 0 .. Uint32 - 1 /\ counter \in Nat
    BY <1>1, LineTypes
  <2> QED
    BY <1>1, <2>1, <2>2, ConfigRange
<1>2. CASE line.field \in Plain
  <2>1. config' = [config EXCEPT ![line.field] = line.value]
    BY <1>2, FieldsDisjoint DEF Assign
  <2> QED
    BY <1>2, <2>1, LineTypes, ConfigPlain
<1>3. CASE line.field \in Pointers
  <2>1. config' = [config EXCEPT ![line.field] = line.value]
    BY <1>3, FieldsDisjoint DEF Assign
  <2> QED
    BY <1>3, <2>1, ConfigPointer
<1>4. CASE line.field \notin Ranges \cup Plain \cup Pointers
  BY <1>4 DEF Assign
<1> QED
  BY <1>1, <1>2, <1>3, <1>4

LEMMA OptionKeeps ==
  ASSUME ConfigOK(config), NEW o \in DOMAIN OptionField, NEW word
  PROVE  ConfigOK([config EXCEPT ![OptionField[o]] = ValueOf(OptionField[o], word)])
<1>1. CASE OptionField[o] \in Plain
  <2>1. ValueOf(OptionField[o], word) \in Nat
    BY <1>1, FieldsDisjoint, InputAssumption DEF ValueOf, Pointers
  <2> QED
    BY <1>1, <2>1, ConfigPlain
<1>2. CASE OptionField[o] \in Names
  BY <1>2, ConfigPointer DEF Pointers
<1> QED
  BY <1>1, <1>2, OptionFields

LEMMA OptionsInvInit == Init => OptionsInv
<1> SUFFICES ASSUME Init PROVE OptionsInv
  OBVIOUS
<1>1. PICK g \in Garbage :
        config = [f \in Settings |-> CASE f \in Ranges   -> FromTo(g, 0)
                                       [] f \in Pointers -> NoName
                                       [] OTHER          -> g]
  BY DEF Init, MutualOptionsInit
<1>2. g \in 0 .. Uint32 - 1 /\ g \in Nat
  BY InputAssumption
<1> DEFINE r == FromTo(g, 0)
<1>3. r \in [{"min", "cur", "max"} -> 0 .. Uint32 - 1] /\ r.cur = r.min
  BY <1>2, FromToType
<1> HIDE DEF r
<1>4. config = [f \in Settings |-> CASE f \in Ranges   -> r
                                       [] f \in Pointers -> NoName
                                       [] OTHER          -> g]
  BY <1>1 DEF r
<1>5. ConfigOK(config)
  BY <1>2, <1>3, <1>4, FieldsDisjoint DEF ConfigOK
<1>6. argv \in Seq(STRING)
  BY InputAssumption DEF Init, MutualOptionsInit
<1>7. i \in 1 .. Len(argv) + 1
  BY <1>6 DEF Init, MutualOptionsInit
<1>8. rest \in Seq(Lines)
  BY DEF Init, MutualOptionsInit
<1>9. pc = "scan" /\ status = "none" /\ complained \in BOOLEAN
  BY DEF Init, MutualOptionsInit
<1> QED
  BY <1>5, <1>6, <1>7, <1>8, <1>9 DEF OptionsInv

LEMMA OptionsInvNext ==
  ASSUME OptionsInv, [Next]_vars
  PROVE  OptionsInv'
<1>1. CASE Quiet
  BY <1>1 DEF Quiet, Ends, OptionsInv, optionVars, ConfigOK
<1>2. CASE Scan
  <2>1. i' \in 1 .. Len(argv) + 1
    BY <1>2 DEF Scan, HasValue, OptionsInv
  <2> QED
    BY <1>2, <2>1 DEF Scan, OptionsInv, ConfigOK
<1>3. CASE Open
  <2>1. rest' \in Seq(Lines)
    BY <1>3, InputAssumption DEF Open, OptionsInv
  <2> QED
    BY <1>3, <2>1 DEF Open, End, OptionsInv, ConfigOK
<1>4. CASE ReadLine
  <2>1. rest # <<>> /\ Head(rest) \in Lines /\ Tail(rest) \in Seq(Lines)
    BY <1>4 DEF ReadLine, AtEnd, OptionsInv
  <2>2. ConfigOK(config')
    BY <1>4, <2>1, AssignKeeps DEF ReadLine, OptionsInv
  <2> QED
    BY <1>4, <2>1, <2>2 DEF ReadLine, End, OptionsInv, ConfigOK
<1>5. CASE GiveUp
  <2>1. i' \in 1 .. Len(argv) + 1
    BY <1>5 DEF GiveUp, OptionsInv
  <2> QED
    BY <1>5, <2>1 DEF GiveUp, OptionsInv, ConfigOK
<1>6. CASE EndOfFile
  <2>1. config["dstmac"] \in Nat
    BY FieldsDisjoint DEF OptionsInv, ConfigOK
  <2>2. ConfigOK(config')
    BY <1>6, <2>1, ConfigPlain DEF EndOfFile, OptionsInv
  <2> QED
    BY <1>6, <2>2 DEF EndOfFile, OptionsInv, ConfigOK
<1>7. CASE Option
  <2>1. ConfigOK(config')
    BY <1>7, OptionKeeps DEF Option, OptionsInv
  <2>2. i' \in 1 .. Len(argv) + 1 /\ argv' = argv
    BY <1>7 DEF Option, HasValue, OptionsInv
  <2> QED
    BY <1>7, <2>1, <2>2 DEF Option, End, OptionsInv, ConfigOK
<1>8. CASE print_config_file \/ OptionsDone
  BY <1>8 DEF print_config_file, OptionsDone, End, OptionsInv, ConfigOK
<1> QED
  BY <1>1, <1>2, <1>3, <1>4, <1>5, <1>6, <1>7, <1>8, StepCases DEF MutualOptionsNext

(***************************************************************************)
(* The chip: what has been settled at each stage.                          *)
(***************************************************************************)

Stages ==
  {"config", "cpus", "instance", "link", "sender", "rings", "iqueues", "groups",
   "buckets", "edma", "stacks", "buffers", "rules", "commit", "ready"}

\* The stages before there are rings, and those after the memory is mapped.
NoRings == {"config", "cpus", "instance", "link", "sender", "rings"}
Mapped  == {"rules", "commit", "ready"}

Counts == {"notif_ring_entries", "equeue_entries", "per_worker_buckets",
           "num_workers", "dmac"}
MpipeFields ==
  Counts \cup {"send_link_name", "recv_link_name", "instance", "send_channel",
               "recv_channel", "ring", "group", "bucket"}

\* Which settings hold, and what has been compared with what there is.
SettledInv ==
  /\ stage \in Stages /\ n \in Nat
  /\ mpipe = [f \in MpipeFields |-> mpipe[f]]
  /\ \A f \in Counts \cup {"ring", "group", "bucket"} : mpipe[f] \in Nat
  /\ stage # "config" =>
       /\ pc \in {"generator", "ended"}
       /\ \A f \in Counts : mpipe[f] = config[f]
  /\ stage \notin {"config", "cpus"} => mpipe.num_workers <= Cpus
  /\ stage \notin {"config", "cpus", "instance"} =>
       mpipe.recv_link_name \in DOMAIN Instance

LEMMA CountsArePlain ==
  /\ Counts \subseteq Plain \cup {"dmac"} /\ Counts \subseteq Settings
  /\ Counts \subseteq MpipeFields
  /\ \A f \in {"ring", "group", "bucket"} :
       f \notin Settings \cup Counts /\ f \in MpipeFields
BY DEF Counts, MpipeFields, Settings, Plain, Ranges, Pointers, Names

LEMMA SettledInit == Init => SettledInv
BY DEF Init, MpipeInitInit, SettledInv, Stages, MpipeFields, Counts

LEMMA Reasons ==
  /\ stage = "cpus" => (Refused <=> Cpus < mpipe.num_workers)
  /\ stage = "instance" => (Refused <=> mpipe.recv_link_name \notin DOMAIN Instance)
  /\ stage = "rings" => (Refused <=> Held["rings"] + mpipe.num_workers > Capacity["rings"])
  /\ stage = "buffers" =>
       (Refused <=> \A p \in PageSizes : p < needed(num_bufs) \div 16)
<1>1. ASSUME stage = "cpus"
      PROVE  Refused <=> Cpus < mpipe.num_workers
  BY <1>1, Zenon DEF Refused, Resources
<1>2. ASSUME stage = "instance"
      PROVE  Refused <=> mpipe.recv_link_name \notin DOMAIN Instance
  BY <1>2, Zenon DEF Refused, Resources
<1>3. ASSUME stage = "rings"
      PROVE  Refused <=> Held["rings"] + mpipe.num_workers > Capacity["rings"]
  BY <1>3, Zenon DEF Refused, Resources, Wanted
<1>4. ASSUME stage = "buffers"
      PROVE  Refused <=> \A p \in PageSizes : p < needed(num_bufs) \div 16
  BY <1>4, Zenon DEF Refused, Resources
<1> QED
  BY <1>1, <1>2, <1>3, <1>4

\* The steps of the initialisation that hand the chip's word to mpipe.
LEMMA SettledStep ==
  ASSUME OptionsInv, SettledInv, MpipeInitNext
  PROVE  SettledInv'
<1> USE DEF Then, Succeeds, At, End
<1>0. /\ config = [f \in Settings |-> config[f]] /\ \A f \in Counts : config[f] \in Nat
      /\ \A k \in Resources : Held[k] \in Nat
  BY CountsArePlain, ChipAssumption DEF OptionsInv, ConfigOK
<1>1. CASE CopyConfig
  <2>1. /\ mpipe' = [f \in MpipeFields |-> mpipe'[f]]
        /\ \A f \in Counts : mpipe'[f] = config[f]
        /\ \A f \in {"ring", "group", "bucket"} : mpipe'[f] = mpipe[f]
    BY <1>0, <1>1, CountsArePlain DEF CopyConfig, SettledInv
  <2>2. stage' = "cpus" /\ UNCHANGED <<n, config, pc>> /\ pc = "generator"
    BY <1>1 DEF CopyConfig, optionVars
  <2> QED
    BY <1>0, <2>1, <2>2 DEF SettledInv, Stages
<1>2. CASE Crash \/ Die
  BY <1>2 DEF Crash, Die, SettledInv, initVars
<1>3. CASE CheckCpus
  <2>1. stage = "cpus" /\ stage' = "instance" /\ mpipe.num_workers <= Cpus
    <3>1. stage = "cpus" /\ stage' = "instance" /\ ~ (Cpus < mpipe.num_workers)
      BY <1>3, Reasons DEF CheckCpus
    <3>2. Cpus \in Nat /\ mpipe.num_workers \in Nat
      BY ChipAssumption DEF SettledInv, Counts
    <3> QED
      BY <3>1, <3>2
  <2> QED
    BY <1>3, <2>1 DEF CheckCpus, SettledInv, Stages, optionVars
<1>4. CASE StartDriver
  <2>1. stage = "instance" /\ stage' = "link" /\ mpipe.recv_link_name \in DOMAIN Instance
    BY <1>4, Reasons DEF StartDriver
  <2>2. /\ mpipe' = [f \in MpipeFields |-> mpipe'[f]]
        /\ \A f \in MpipeFields \ {"instance"} : mpipe'[f] = mpipe[f]
    BY <1>4 DEF StartDriver, SettledInv
  <2> QED
    BY <1>4, <2>1, <2>2 DEF StartDriver, SettledInv, Stages, optionVars, MpipeFields, Counts
<1>5. CASE OpenReceiver
  <2>2. /\ mpipe' = [f \in MpipeFields |-> mpipe'[f]]
        /\ \A f \in MpipeFields \ {"recv_channel", "send_channel"} : mpipe'[f] = mpipe[f]
    BY <1>5 DEF OpenReceiver, SettledInv
  <2> QED
    BY <1>5, <2>2 DEF OpenReceiver, SettledInv, Stages, optionVars, MpipeFields, Counts
<1>6. CASE OpenSender
  <2>2. /\ mpipe' = [f \in MpipeFields |-> mpipe'[f]]
        /\ \A f \in MpipeFields \ {"send_channel"} : mpipe'[f] = mpipe[f]
    BY <1>6 DEF OpenSender, SettledInv
  <2> QED
    BY <1>6, <2>2 DEF OpenSender, SettledInv, Stages, optionVars, MpipeFields, Counts
<1>7. CASE AllocRings
  <2>2. /\ mpipe' = [f \in MpipeFields |-> mpipe'[f]]
        /\ \A f \in MpipeFields \ {"ring"} : mpipe'[f] = mpipe[f]
        /\ mpipe'.ring \in Nat
    BY <1>0, <1>7 DEF AllocRings, SettledInv, Resources, MpipeFields
  <2> QED
    BY <1>7, <2>2 DEF AllocRings, SettledInv, Stages, optionVars, MpipeFields, Counts
<1>8. CASE AllocGroups
  <2>2. /\ mpipe' = [f \in MpipeFields |-> mpipe'[f]]
        /\ \A f \in MpipeFields \ {"group"} : mpipe'[f] = mpipe[f]
        /\ mpipe'.group \in Nat
    BY <1>0, <1>8 DEF AllocGroups, SettledInv, Resources, MpipeFields
  <2> QED
    BY <1>8, <2>2 DEF AllocGroups, SettledInv, Stages, optionVars, MpipeFields, Counts
<1>9. CASE AllocBuckets
  <2>2. /\ mpipe' = [f \in MpipeFields |-> mpipe'[f]]
        /\ \A f \in MpipeFields \ {"bucket"} : mpipe'[f] = mpipe[f]
        /\ mpipe'.bucket \in Nat
    BY <1>0, <1>9 DEF AllocBuckets, SettledInv, Resources, MpipeFields
  <2> QED
    BY <1>9, <2>2 DEF AllocBuckets, SettledInv, Stages, optionVars, MpipeFields, Counts
<1>10. CASE \/ IqueuesDone \/ InitEqueue \/ AllocStack \/ create_stack
            \/ RulesDone \/ Commit
  BY <1>10 DEF IqueuesDone, InitEqueue, AllocStack, create_stack, RulesDone, Commit,
               SettledInv, Stages, optionVars
<1>11. CASE InitIqueue \/ AddRule
  <2>1. n' \in Nat
    <3>1. n' = n + 1
      BY <1>11, Zenon DEF InitIqueue, AddRule
    <3> QED
      BY <3>1 DEF SettledInv
  <2> QED
    BY <1>11, <2>1 DEF InitIqueue, AddRule, SettledInv, Stages, optionVars
<1> QED
  BY <1>1, <1>2, <1>3, <1>4, <1>5, <1>6, <1>7, <1>8, <1>9, <1>10, <1>11
  DEF MpipeInitNext

\* The other steps do not touch it.
LEMMA SettledNext ==
  ASSUME OptionsInv, SettledInv, [Next]_vars
  PROVE  SettledInv'
<1>1. CASE MutualOptionsNext /\ UNCHANGED <<initVars, generator, made>>
  <2>1. stage = "config"
    BY <1>1 DEF MutualOptionsNext, Scan, Open, ReadLine, GiveUp, EndOfFile, Option,
                print_config_file, OptionsDone, SettledInv
  <2> QED
    BY <1>1, <2>1 DEF SettledInv, initVars
<1>2. CASE MpipeInitNext
  BY <1>2, SettledStep
<1>3. CASE CreateWorker
  <2>1. n' \in Nat
    BY <1>3 DEF CreateWorker, SettledInv
  <2> QED
    BY <1>3, <2>1 DEF CreateWorker, SettledInv, optionVars
<1>4. ASSUME NEW w \in DOMAIN made, MakePacket(w)
      PROVE  SettledInv'
  BY <1>4 DEF MakePacket, SettledInv, optionVars, initVars
<1>5. ASSUME NEW w \in DOMAIN made, Overwrite(w)
      PROVE  SettledInv'
  BY <1>5 DEF Overwrite, End, SettledInv, optionVars, initVars
<1>6. CASE UNCHANGED vars
  BY <1>6 DEF vars, SettledInv, optionVars, initVars
<1> QED
  BY <1>1, <1>2, <1>3, <1>4, <1>5, <1>6, NextCases

ChipFields == {"open", "iqueues", "memory", "assigned", "rules", "refused"}

\* Which step touches what.
LEMMA Touched ==
  ASSUME OptionsInv, SettledInv, MpipeInitNext, chip = [f \in ChipFields |-> chip[f]]
  PROVE  /\ chip' = [f \in ChipFields |-> chip'[f]]
         /\ ~ OpenReceiver /\ ~ OpenSender => chip'.open = chip.open
         /\ ~ InitIqueue => chip'.iqueues = chip.iqueues
         /\ ~ create_stack => chip'.memory = chip.memory
         /\ ~ AddRule => /\ chip'.assigned = chip.assigned /\ chip'.rules = chip.rules
                         /\ chip'.refused = chip.refused
         /\ ~ CopyConfig => \A f \in Counts : mpipe'[f] = mpipe[f]
         /\ ~ AllocRings => mpipe'.ring = mpipe.ring
         /\ ~ AllocGroups => mpipe'.group = mpipe.group
         /\ ~ AllocBuckets => mpipe'.bucket = mpipe.bucket
<1> USE DEF ChipFields
<1>1. CASE CopyConfig
  <2>1. \A f \in {"ring", "group", "bucket"} : mpipe'[f] = mpipe[f]
    BY <1>1, CountsArePlain DEF CopyConfig, SettledInv, OptionsInv, ConfigOK
  <2>2. chip' = chip
    BY <1>1 DEF CopyConfig
  <2> QED
    BY <1>1, <2>1, <2>2
<1>2. CASE \/ Crash \/ Die \/ CheckCpus \/ IqueuesDone \/ InitEqueue \/ AllocStack
           \/ RulesDone \/ Commit
  <2>1. chip' = chip /\ mpipe' = mpipe
    BY <1>2 DEF Crash, Die, CheckCpus, IqueuesDone, InitEqueue, AllocStack, RulesDone,
                Commit, initVars
  <2> QED
    BY <2>1
<1>3. CASE StartDriver \/ AllocRings \/ AllocGroups \/ AllocBuckets
  <2>1. chip' = chip
    BY <1>3 DEF StartDriver, AllocRings, AllocGroups, AllocBuckets
  <2>2. CASE StartDriver
    BY <2>1, <2>2 DEF StartDriver, SettledInv, Counts, MpipeFields
  <2>3. CASE AllocRings
    BY <2>1, <2>3 DEF AllocRings, SettledInv, Counts, MpipeFields
  <2>4. CASE AllocGroups
    BY <2>1, <2>4 DEF AllocGroups, SettledInv, Counts, MpipeFields
  <2>5. CASE AllocBuckets
    BY <2>1, <2>5 DEF AllocBuckets, SettledInv, Counts, MpipeFields
  <2> QED
    BY <1>3, <2>2, <2>3, <2>4, <2>5
<1>4. CASE OpenReceiver
  BY <1>4 DEF OpenReceiver, SettledInv, Counts, MpipeFields
<1>5. CASE OpenSender
  BY <1>5 DEF OpenSender, SettledInv, Counts, MpipeFields
<1>6. CASE InitIqueue
  BY <1>6 DEF InitIqueue
<1>7. CASE create_stack
  BY <1>7 DEF create_stack
<1>8. CASE AddRule
  BY <1>8 DEF AddRule
<1> QED
  BY <1>1, <1>2, <1>3, <1>4, <1>5, <1>6, <1>7, <1>8 DEF MpipeInitNext

\* How many ingress rings have been initialised: those from mpipe.ring on.
Initialised ==
  IF stage \in NoRings THEN 0 ELSE IF stage = "iqueues" THEN n ELSE mpipe.num_workers

RingsInv ==
  /\ chip = [f \in ChipFields |-> chip[f]]
  /\ chip.open \subseteq DOMAIN Instance
  /\ stage \notin NoRings => mpipe.ring + mpipe.num_workers <= Capacity["rings"]
  /\ stage = "iqueues" => n <= mpipe.num_workers
  /\ chip.iqueues = mpipe.ring .. mpipe.ring + Initialised - 1

LEMMA RingsInit == Init => RingsInv
BY DEF Init, MpipeInitInit, RingsInv, ChipFields, Initialised, NoRings

LEMMA RingsStep ==
  ASSUME OptionsInv, SettledInv, RingsInv, MpipeInitNext
  PROVE  RingsInv'
<1> USE DEF Then, Succeeds, At, End
<1>1. /\ mpipe.ring \in Nat /\ mpipe.num_workers \in Nat /\ n \in Nat
      /\ Held["rings"] \in Nat /\ Capacity["rings"] \in Nat
  BY ChipAssumption DEF SettledInv, Counts, Resources
<1>2. chip' = [f \in ChipFields |-> chip'[f]]
  BY Touched DEF RingsInv
<1>3. chip'.open \subseteq DOMAIN Instance
  <2>1. CASE OpenReceiver
    BY <2>1 DEF OpenReceiver, RingsInv, SettledInv, ChipFields
  <2>2. CASE OpenSender
    BY <2>2 DEF OpenSender, Opens, RingsInv, ChipFields
  <2> QED
    BY <2>1, <2>2, Touched DEF RingsInv
<1>4. CASE InitIqueue
  <2>1. /\ stage = "iqueues" /\ stage' = stage /\ n < mpipe.num_workers /\ n' = n + 1
        /\ mpipe' = mpipe /\ chip'.iqueues = chip.iqueues \cup {mpipe.ring + n}
    BY <1>4 DEF InitIqueue, RingsInv, ChipFields
  <2>2. chip'.iqueues = mpipe.ring .. mpipe.ring + (n + 1) - 1
    BY <1>1, <2>1 DEF RingsInv, Initialised, NoRings
  <2>3. Initialised' = n + 1
    BY <2>1 DEF Initialised, NoRings
  <2>4. n' <= mpipe'.num_workers
    BY <1>1, <2>1
  <2>5. mpipe'.ring + mpipe'.num_workers <= Capacity["rings"]
    BY <2>1 DEF RingsInv, NoRings
  <2> HIDE DEF Then, Succeeds, At, End
  <2> QED
    BY <1>2, <1>3, <2>1, <2>2, <2>3, <2>4, <2>5 DEF RingsInv
<1>5. CASE AllocRings
  <2>1. /\ stage = "rings" /\ stage' = "iqueues" /\ n' = 0 /\ mpipe'.ring = Held["rings"]
        /\ mpipe'.num_workers = mpipe.num_workers /\ chip' = chip
    BY <1>5, Touched DEF AllocRings, SettledInv, Counts, RingsInv, MpipeFields
  <2>2. ~ (Held["rings"] + mpipe.num_workers > Capacity["rings"])
    BY <1>5, Reasons DEF AllocRings
  <2>3. chip.iqueues = {}
    BY <1>1, <2>1 DEF RingsInv, Initialised, NoRings
  <2> QED
    BY <1>1, <1>2, <1>3, <2>1, <2>2, <2>3 DEF RingsInv, Initialised, NoRings
<1>6. CASE CopyConfig
  <2>1. /\ stage = "config" /\ stage' = "cpus" /\ mpipe'.ring = mpipe.ring /\ chip' = chip
    BY <1>6, Touched DEF CopyConfig, AllocRings, RingsInv
  <2> QED
    BY <1>1, <1>2, <1>3, <2>1 DEF RingsInv, Initialised, NoRings
<1>7. CASE IqueuesDone
  <2>1. /\ stage = "iqueues" /\ stage' = "groups" /\ mpipe' = mpipe /\ chip' = chip
        /\ n >= mpipe.num_workers
    BY <1>7 DEF IqueuesDone
  <2>2. n = mpipe.num_workers
    BY <1>1, <2>1 DEF RingsInv
  <2> QED
    BY <1>1, <1>2, <1>3, <2>1, <2>2 DEF RingsInv, Initialised, NoRings
<1>8. CASE ~ (InitIqueue \/ AllocRings \/ CopyConfig \/ IqueuesDone)
  <2>1. /\ mpipe'.ring = mpipe.ring /\ mpipe'.num_workers = mpipe.num_workers
        /\ chip'.iqueues = chip.iqueues
    BY <1>8, Touched DEF RingsInv, Counts
  <2>2. \/ stage' = stage /\ n' = n
        \/ stage \in NoRings /\ stage' \in NoRings
        \/ stage \notin NoRings \cup {"iqueues"} /\ stage' \notin NoRings \cup {"iqueues"}
    BY <1>8 DEF MpipeInitNext, Crash, Die, CheckCpus, StartDriver, OpenReceiver, OpenSender,
                AllocGroups, AllocBuckets, InitEqueue, AllocStack, create_stack, AddRule,
                RulesDone, Commit, initVars, NoRings
  <2>3. Initialised' = Initialised
    BY <2>1, <2>2 DEF Initialised, NoRings
  <2> QED
    BY <1>1, <1>2, <1>3, <2>1, <2>2, <2>3 DEF RingsInv, NoRings
<1> QED
  BY <1>4, <1>5, <1>6, <1>7, <1>8

\* The memory mapped for the buffers; its page was big enough for 16 of them.
MemoryInv ==
  /\ chip.memory =
       IF stage \in Mapped
         THEN <<[first |-> stack_bytes(num_bufs), number |-> num_bufs,
                 pages |-> pages(num_bufs),
                 bytes |-> pages(num_bufs) * pagesize(needed(num_bufs) \div 16)]>>
         ELSE <<>>
  /\ stage \in Mapped =>
       ~ \A p \in PageSizes : p < needed(num_bufs) \div 16

LEMMA MemoryInit == Init => MemoryInv
BY DEF Init, MpipeInitInit, MemoryInv, Mapped

LEMMA MemoryStep ==
  ASSUME OptionsInv, SettledInv, RingsInv, MemoryInv, MpipeInitNext
  PROVE  MemoryInv'
<1> USE DEF Then, Succeeds, At, End
<1>1. CASE create_stack
  <2>1. /\ stage = "buffers" /\ stage' = "rules" /\ mpipe' = mpipe /\ ~ Refused
        /\ chip'.memory =
             <<[first |-> stack_bytes(num_bufs), number |-> num_bufs,
                pages |-> pages(num_bufs),
                bytes |-> pages(num_bufs) * pagesize(needed(num_bufs) \div 16)]>>
    BY <1>1 DEF create_stack, RingsInv, ChipFields
  <2>2. ~ \A p \in PageSizes : p < needed(num_bufs) \div 16
    BY <2>1, Reasons
  <2>3. num_bufs' = num_bufs
    BY <2>1 DEF num_bufs
  <2>4. /\ (stack_bytes(num_bufs))' = stack_bytes(num_bufs)
        /\ (needed(num_bufs))' = needed(num_bufs)
    BY <2>3 DEF stack_bytes, needed, RoundUp, buffer_stack_bytes, buffer_size
  <2>5. /\ (pages(num_bufs))' = pages(num_bufs)
        /\ (pagesize(needed(num_bufs) \div 16))' = pagesize(needed(num_bufs) \div 16)
    BY <2>4 DEF pages, pagesize
  <2> QED
    BY <2>1, <2>2, <2>3, <2>4, <2>5, Zenon DEF MemoryInv, Mapped
<1>2. CASE ~ create_stack
  <2>1. chip'.memory = chip.memory
    BY <1>2, Touched DEF RingsInv
  <2>2. \/ stage \notin Mapped /\ stage' \notin Mapped
        \/ stage \in Mapped /\ stage' \in Mapped /\ mpipe' = mpipe
    BY <1>2 DEF MpipeInitNext, CopyConfig, Crash, Die, CheckCpus, StartDriver,
                OpenReceiver, OpenSender, AllocRings, InitIqueue, IqueuesDone,
                AllocGroups, AllocBuckets, InitEqueue, AllocStack, AddRule,
                RulesDone, Commit, initVars, Mapped
  <2>3. CASE stage \notin Mapped /\ stage' \notin Mapped
    BY <2>1, <2>3 DEF MemoryInv
  <2>4. CASE stage \in Mapped /\ stage' \in Mapped /\ mpipe' = mpipe
    <3>1. num_bufs' = num_bufs
      BY <2>4 DEF num_bufs
    <3>2. /\ (stack_bytes(num_bufs))' = stack_bytes(num_bufs)
          /\ (needed(num_bufs))' = needed(num_bufs)
      BY <3>1 DEF stack_bytes, needed, RoundUp, buffer_stack_bytes, buffer_size
    <3>3. /\ (pages(num_bufs))' = pages(num_bufs)
          /\ (pagesize(needed(num_bufs) \div 16))' = pagesize(needed(num_bufs) \div 16)
      BY <3>2 DEF pages, pagesize
    <3> QED
      BY <2>1, <2>4, <3>1, <3>2, <3>3, Zenon DEF MemoryInv
  <2> QED
    BY <2>2, <2>3, <2>4
<1> QED
  BY <1>1, <1>2

\* What has been said of the first workers' groups and rules.
Ruled ==
  IF stage = "rules" THEN n
  ELSE IF stage \in {"commit", "ready"} THEN mpipe.num_workers ELSE 0

Groups == [group : Nat, ring : Nat, first : Nat]
Rules  == [first : Nat, dmacs : SUBSET (0 .. 255)]

\* The rule of a worker when every call has done what it was told.
RuleOf(w) == [first |-> BucketOf(w), dmacs |-> {Dmac(w)}]

RulesInv ==
  /\ stage = "rules" => n <= mpipe.num_workers
  /\ chip.assigned \in Seq(Groups) /\ Len(chip.assigned) <= Ruled
  /\ chip.rules \in Seq(Rules) /\ Len(chip.rules) <= Ruled
  /\ ~ chip.refused =>
       /\ Len(chip.assigned) = Ruled /\ Len(chip.rules) = Ruled
       /\ \A k \in 1 .. Ruled :
            chip.assigned[k] = Group(k - 1) /\ chip.rules[k] = RuleOf(k - 1)
       /\ Ruled > 0 => IsPowerOf2(mpipe.per_worker_buckets)

LEMMA RulesInit == Init => RulesInv
BY DEF Init, MpipeInitInit, RulesInv, Ruled

\* What gxio_mpipe_rules_add_dmac does to the rules begun.
LEMMA AddressJoins ==
  ASSUME NEW rules \in Seq(Rules), NEW d \in 0 .. 255
  PROVE  WithDmac(rules, d) \in Seq(Rules) /\ Len(WithDmac(rules, d)) = Len(rules)
<1>1. CASE rules = <<>>
  BY <1>1 DEF WithDmac
<1>2. CASE rules # <<>>
  <2>1. Len(rules) \in 1 .. Len(rules)
    BY <1>2
  <2>2. PICK r \in Rules : r = rules[Len(rules)]
    BY <2>1
  <2>3. PICK q \in Rules : q = [r EXCEPT !.dmacs = @ \cup {d}]
    BY DEF Rules
  <2>4. WithDmac(rules, d) = [rules EXCEPT ![Len(rules)] = q]
    BY <1>2, <2>1, <2>2, <2>3 DEF WithDmac
  <2> QED
    BY <2>1, <2>4
<1> QED
  BY <1>1, <1>2

LEMMA AddressOfNewRule ==
  ASSUME NEW rules \in Seq(Rules), NEW first \in Nat, NEW d \in 0 .. 255
  PROVE  WithDmac(Append(rules, [first |-> first, dmacs |-> {}]), d)
           = Append(rules, [first |-> first, dmacs |-> {d}])
<1>1. PICK r \in Rules : r = [first |-> first, dmacs |-> {}]
  BY DEF Rules
<1>2. PICK q \in Rules : q = [first |-> first, dmacs |-> {d}]
  BY DEF Rules
<1>3. q = [r EXCEPT !.dmacs = @ \cup {d}]
  <2>1. PICK p : p = [r EXCEPT !.dmacs = @ \cup {d}]
    OBVIOUS
  <2>2. r.dmacs \cup {d} = {d}
    BY <1>1
  <2>3. DOMAIN p = {"first", "dmacs"} /\ p.first = first /\ p.dmacs = {d}
    BY <1>1, <2>1, <2>2
  <2>4. p = [f \in {"first", "dmacs"} |-> p[f]]
    BY <1>1, <2>1
  <2> QED
    BY <1>2, <2>1, <2>3, <2>4
<1>4. /\ Append(rules, r) # <<>> /\ Len(Append(rules, r)) = Len(rules) + 1
      /\ Append(rules, r)[Len(rules) + 1] = r
  OBVIOUS
<1>5. WithDmac(Append(rules, r), d) = [Append(rules, r) EXCEPT ![Len(rules) + 1] = q]
  BY <1>3, <1>4 DEF WithDmac
<1>6. [Append(rules, r) EXCEPT ![Len(rules) + 1] = q] = Append(rules, q)
  <2> DEFINE t == Append(rules, r)
             s == [t EXCEPT ![Len(rules) + 1] = q]
  <2>1. /\ s \in Seq(Rules) /\ Len(s) = Len(rules) + 1 /\ s[Len(rules) + 1] = q
        /\ \A k \in 1 .. Len(rules) : s[k] = rules[k]
    <3>1. /\ t \in Seq(Rules) /\ Len(t) = Len(rules) + 1
          /\ \A k \in 1 .. Len(rules) : t[k] = rules[k]
      BY <1>1
    <3> HIDE DEF t
    <3> QED
      BY <1>2, <3>1
  <2>2. /\ Append(rules, q) \in Seq(Rules) /\ Len(Append(rules, q)) = Len(rules) + 1
        /\ Append(rules, q)[Len(rules) + 1] = q
        /\ \A k \in 1 .. Len(rules) : Append(rules, q)[k] = rules[k]
    BY <1>2
  <2> HIDE DEF s
  <2>3. \A k \in 1 .. Len(s) : s[k] = Append(rules, q)[k]
    BY <2>1, <2>2
  <2>4. s = Append(rules, q)
    BY <2>1, <2>2, <2>3
  <2> QED
    BY <2>4 DEF s
<1> QED
  BY <1>1, <1>2, <1>5, <1>6

\* Which groups and rules a step of init_mpipe_rules leaves.
LEMMA RuleAdded ==
  ASSUME AddRule, chip = [f \in ChipFields |-> chip[f]]
  PROVE  LET begun == Append(chip.rules, [first |-> BucketOf(n), dmacs |-> {}]) IN
         /\ chip'.assigned \in {chip.assigned, Append(chip.assigned, Group(n))}
         /\ chip'.rules \in {chip.rules, begun, WithDmac(chip.rules, Dmac(n)),
                              WithDmac(begun, Dmac(n))}
         /\ ~ chip'.refused =>
              /\ ~ chip.refused /\ IsPowerOf2(mpipe.per_worker_buckets)
              /\ chip'.assigned = Append(chip.assigned, Group(n))
              /\ chip'.rules = WithDmac(begun, Dmac(n))
BY DEF AddRule, ChipFields

LEMMA RulesStep ==
  ASSUME OptionsInv, SettledInv, RingsInv, RulesInv, MpipeInitNext
  PROVE  RulesInv'
<1> USE DEF Then, Succeeds, At, End
<1>1. /\ mpipe.ring \in Nat /\ mpipe.group \in Nat /\ mpipe.bucket \in Nat
      /\ mpipe.num_workers \in Nat /\ mpipe.per_worker_buckets \in Nat
      /\ mpipe.dmac \in Nat /\ n \in Nat
  BY DEF SettledInv, Counts
<1>2. CASE AddRule
  <2> DEFINE begun == Append(chip.rules, [first |-> BucketOf(n), dmacs |-> {}])
  <2>1. /\ stage = "rules" /\ stage' = stage /\ n < mpipe.num_workers /\ n' = n + 1
        /\ mpipe' = mpipe
    BY <1>2 DEF AddRule
  <2>2. Ruled = n /\ Ruled' = n + 1 /\ n' <= mpipe'.num_workers
    BY <1>1, <2>1 DEF Ruled
  <2>3. BucketOf(n) \in Nat /\ Dmac(n) \in 0 .. 255 /\ Group(n) \in Groups
    BY <1>1 DEF BucketOf, Dmac, Group, Groups
  <2>4. /\ \A k : (Group(k))' = Group(k) /\ (RuleOf(k))' = RuleOf(k)
        /\ (IsPowerOf2(mpipe.per_worker_buckets))' = IsPowerOf2(mpipe.per_worker_buckets)
    BY <2>1 DEF BucketOf, Dmac, Group, RuleOf, IsPowerOf2
  <2>5. /\ chip.assigned \in Seq(Groups) /\ Len(chip.assigned) <= n
        /\ chip.rules \in Seq(Rules) /\ Len(chip.rules) <= n
    BY <2>2 DEF RulesInv
  <2>6. begun \in Seq(Rules) /\ Len(begun) = Len(chip.rules) + 1
    <3>1. [first |-> BucketOf(n), dmacs |-> {}] \in Rules
      BY <2>3 DEF Rules
    <3> QED
      BY <2>5, <3>1
  <2>7. WithDmac(begun, Dmac(n)) = Append(chip.rules, RuleOf(n))
    BY <2>3, <2>5, AddressOfNewRule DEF RuleOf
  <2>8. /\ chip'.assigned \in {chip.assigned, Append(chip.assigned, Group(n))}
        /\ chip'.rules \in {chip.rules, begun, WithDmac(chip.rules, Dmac(n)),
                             WithDmac(begun, Dmac(n))}
    BY <1>2, RuleAdded DEF RingsInv
  <2>9. ~ chip'.refused =>
          /\ ~ chip.refused /\ IsPowerOf2(mpipe.per_worker_buckets)
          /\ chip'.assigned = Append(chip.assigned, Group(n))
          /\ chip'.rules = WithDmac(begun, Dmac(n))
    BY <1>2, RuleAdded, Zenon DEF RingsInv
  <2> HIDE DEF begun
  <2>10. chip'.assigned \in Seq(Groups) /\ Len(chip'.assigned) <= n + 1
    <3>1. /\ Append(chip.assigned, Group(n)) \in Seq(Groups)
          /\ Len(Append(chip.assigned, Group(n))) = Len(chip.assigned) + 1
      BY <2>3, <2>5
    <3>2. CASE chip'.assigned = chip.assigned
      BY <1>1, <2>5, <3>2
    <3>3. CASE chip'.assigned = Append(chip.assigned, Group(n))
      BY <1>1, <2>5, <3>1, <3>3
    <3> QED
      BY <2>8, <3>2, <3>3, Zenon
  <2>11. chip'.rules \in Seq(Rules) /\ Len(chip'.rules) <= n + 1
    <3>1. \A rules \in Seq(Rules) :
            /\ WithDmac(rules, Dmac(n)) \in Seq(Rules)
            /\ Len(WithDmac(rules, Dmac(n))) = Len(rules)
      BY <2>3, AddressJoins
    <3>2. /\ WithDmac(chip.rules, Dmac(n)) \in Seq(Rules)
          /\ WithDmac(begun, Dmac(n)) \in Seq(Rules)
          /\ Len(WithDmac(chip.rules, Dmac(n))) = Len(chip.rules)
          /\ Len(WithDmac(begun, Dmac(n))) = Len(begun)
      BY <2>5, <2>6, <3>1
    <3> QED
      BY <1>1, <2>5, <2>6, <2>8, <3>2
  <2>12. ASSUME ~ chip'.refused
         PROVE  /\ Len(chip'.assigned) = n + 1 /\ Len(chip'.rules) = n + 1
                /\ \A k \in 1 .. n + 1 :
                     chip'.assigned[k] = Group(k - 1) /\ chip'.rules[k] = RuleOf(k - 1)
                /\ IsPowerOf2(mpipe.per_worker_buckets)
    <3>1. /\ ~ chip.refused /\ IsPowerOf2(mpipe.per_worker_buckets)
          /\ chip'.assigned = Append(chip.assigned, Group(n))
          /\ chip'.rules = Append(chip.rules, RuleOf(n))
      BY <2>7, <2>9, <2>12, Zenon
    <3>2. /\ Len(chip.assigned) = n /\ Len(chip.rules) = n
          /\ \A k \in 1 .. n :
               chip.assigned[k] = Group(k - 1) /\ chip.rules[k] = RuleOf(k - 1)
      BY <2>2, <3>1, Zenon DEF RulesInv
    <3>3. /\ Len(chip'.assigned) = n + 1 /\ chip'.assigned[n + 1] = Group(n)
          /\ \A k \in 1 .. n : chip'.assigned[k] = chip.assigned[k]
      BY <1>1, <2>5, <3>1, <3>2
    <3>4. /\ Len(chip'.rules) = n + 1 /\ chip'.rules[n + 1] = RuleOf(n)
          /\ \A k \in 1 .. n : chip'.rules[k] = chip.rules[k]
      <4>1. RuleOf(n) \in Rules
        BY <2>3 DEF RuleOf, Rules
      <4> QED
        BY <1>1, <2>5, <3>1, <3>2, <4>1
    <3>5. ASSUME NEW k \in 1 .. n + 1
          PROVE  chip'.assigned[k] = Group(k - 1) /\ chip'.rules[k] = RuleOf(k - 1)
      <4>1. CASE k \in 1 .. n
        BY <3>2, <3>3, <3>4, <4>1, Zenon
      <4>2. CASE k \notin 1 .. n
        <5>1. k = n + 1 /\ k - 1 = n
          BY <1>1, <4>2
        <5> QED
          BY <3>3, <3>4, <5>1, Zenon
      <4> QED
        BY <4>1, <4>2
    <3> QED
      BY <3>1, <3>3, <3>4, <3>5, Zenon
  <2> QED
    BY <2>1, <2>2, <2>4, <2>10, <2>11, <2>12, Zenon DEF RulesInv
<1>3. CASE ~ AddRule
  <2>1. /\ chip'.assigned = chip.assigned /\ chip'.rules = chip.rules
        /\ chip'.refused = chip.refused
    BY <1>3, Touched DEF RingsInv
  <2>2. \/ stage \notin Mapped /\ stage' \notin Mapped
        \/ stage \notin Mapped /\ stage' = "rules" /\ n' = 0
        \/ stage \in Mapped /\ mpipe' = mpipe /\ stage' = stage /\ n' = n
        \/ stage = "rules" /\ stage' = "commit" /\ mpipe' = mpipe /\ n >= mpipe.num_workers
        \/ stage = "commit" /\ stage' = "ready" /\ mpipe' = mpipe
    BY <1>3 DEF MpipeInitNext, CopyConfig, Crash, Die, CheckCpus, StartDriver,
                OpenReceiver, OpenSender, AllocRings, InitIqueue, IqueuesDone,
                AllocGroups, AllocBuckets, InitEqueue, AllocStack, create_stack,
                RulesDone, Commit, initVars, Mapped
  <2>3. CASE \/ stage \notin Mapped /\ stage' \notin Mapped
             \/ stage \notin Mapped /\ stage' = "rules" /\ n' = 0
    <3>1. Ruled = 0 /\ Ruled' = 0
      BY <2>3 DEF Ruled, Mapped
    <3>2. Len(chip.assigned) = 0 /\ Len(chip.rules) = 0
      BY <3>1 DEF RulesInv
    <3>3. stage' = "rules" => n' <= mpipe'.num_workers
      <4>1. mpipe'.num_workers \in Nat
        BY SettledNext, SettledStep DEF SettledInv, Counts
      <4> QED
        BY <4>1, <2>3 DEF Mapped
    <3> QED
      BY <2>1, <3>1, <3>2, <3>3 DEF RulesInv
  <2>4. CASE /\ mpipe' = mpipe /\ Ruled' = Ruled
             /\ stage' = "rules" => n' = n /\ stage = stage'
    <3>1. /\ \A k : (Group(k))' = Group(k) /\ (RuleOf(k))' = RuleOf(k)
          /\ (IsPowerOf2(mpipe.per_worker_buckets))' = IsPowerOf2(mpipe.per_worker_buckets)
      BY <2>4 DEF BucketOf, Dmac, Group, RuleOf, IsPowerOf2
    <3>2. stage' = "rules" => n' <= mpipe'.num_workers
      BY <2>4 DEF RulesInv
    <3> QED
      BY <2>1, <2>4, <3>1, <3>2, Zenon DEF RulesInv
  <2>5. CASE stage \in Mapped /\ mpipe' = mpipe /\ stage' = stage /\ n' = n
    BY <2>4, <2>5 DEF Ruled
  <2>6. CASE \/ stage = "rules" /\ stage' = "commit" /\ mpipe' = mpipe /\ n >= mpipe.num_workers
             \/ stage = "commit" /\ stage' = "ready" /\ mpipe' = mpipe
    <3>1. stage = "rules" => n = mpipe.num_workers
      BY <1>1, <2>6 DEF RulesInv
    <3> QED
      BY <2>4, <2>6, <3>1 DEF Ruled
  <2> QED
    BY <2>2, <2>3, <2>5, <2>6
<1> QED
  BY <1>2, <1>3

ChipInv == RingsInv /\ MemoryInv /\ RulesInv

LEMMA ChipInit == Init => ChipInv
BY RingsInit, MemoryInit, RulesInit DEF ChipInv

\* Only mpipe and chip matter, and the counter in three stages.
LEMMA ChipStays ==
  ASSUME ChipInv, UNCHANGED <<stage, mpipe, chip>>, n' = n \/ stage = "ready"
  PROVE  ChipInv'
<1>1. RingsInv'
  <2>1. Initialised' = Initialised
    BY DEF Initialised, NoRings
  <2> QED
    BY <2>1 DEF ChipInv, RingsInv
<1>2. MemoryInv'
  <2>1. num_bufs' = num_bufs
    BY DEF num_bufs
  <2>2. /\ (stack_bytes(num_bufs))' = stack_bytes(num_bufs)
        /\ (needed(num_bufs))' = needed(num_bufs)
    BY <2>1 DEF stack_bytes, needed, RoundUp, buffer_stack_bytes, buffer_size
  <2>3. /\ (pages(num_bufs))' = pages(num_bufs)
        /\ (pagesize(needed(num_bufs) \div 16))' = pagesize(needed(num_bufs) \div 16)
    BY <2>2 DEF pages, pagesize
  <2> QED
    BY <2>1, <2>2, <2>3, Zenon DEF ChipInv, MemoryInv
<1>3. RulesInv'
  <2>1. Ruled' = Ruled /\ (stage' = "rules" => n' = n)
    BY DEF Ruled
  <2>2. /\ \A k : (Group(k))' = Group(k) /\ (RuleOf(k))' = RuleOf(k)
        /\ (IsPowerOf2(mpipe.per_worker_buckets))' = IsPowerOf2(mpipe.per_worker_buckets)
    BY DEF BucketOf, Dmac, Group, RuleOf, IsPowerOf2
  <2>3. stage' = "rules" => n' <= mpipe'.num_workers
    BY <2>1 DEF ChipInv, RulesInv
  <2> QED
    BY <2>1, <2>2, <2>3, Zenon DEF ChipInv, RulesInv
<1> QED
  BY <1>1, <1>2, <1>3 DEF ChipInv

LEMMA ChipNext ==
  ASSUME OptionsInv, SettledInv, ChipInv, [Next]_vars
  PROVE  ChipInv'
<1>1. CASE MpipeInitNext
  BY <1>1, RingsStep, MemoryStep, RulesStep DEF ChipInv
<1>2. CASE UNCHANGED <<stage, mpipe, chip>> /\ (n' = n \/ stage = "ready")
  BY <1>2, ChipStays
<1>3. CASE MutualOptionsNext /\ UNCHANGED <<initVars, generator, made>>
  BY <1>2, <1>3 DEF initVars
<1>4. CASE CreateWorker
  BY <1>2, <1>4 DEF CreateWorker, At
<1>5. ASSUME NEW w \in DOMAIN made, MakePacket(w) \/ Overwrite(w)
      PROVE  ChipInv'
  BY <1>2, <1>5 DEF MakePacket, Overwrite, initVars
<1>6. CASE UNCHANGED vars
  BY <1>2, <1>6 DEF vars, initVars
<1> QED
  BY <1>1, <1>3, <1>4, <1>5, <1>6, NextCases

(***************************************************************************)
(* Memory.                                                                 *)
(***************************************************************************)

LEMMA LeastExists ==
  ASSUME NEW S \in SUBSET Nat, S # {}
  PROVE  \E x \in S : \A y \in S : x <= y
<1>1. IsWellFoundedOn(OpToRel(<, Nat), Nat)
  BY NatLessThanWellFounded
<1>2. PICK x \in S : \A y \in S : ~ (<<y, x>> \in OpToRel(<, Nat))
  BY <1>1, WFMin
<1>3. ASSUME NEW y \in S
      PROVE  x <= y
  <2>1. ~ (y < x)
    BY <1>2, <1>3 DEF OpToRel
  <2> QED
    BY <2>1
<1> QED
  BY <1>3

\* The page that is taken is big enough.
LEMMA PageFits ==
  ASSUME NEW bytes \in Nat, ~ \A p \in PageSizes : p < bytes
  PROVE  pagesize(bytes) \in Nat \ {0} /\ pagesize(bytes) >= bytes
<1> DEFINE S == {p \in PageSizes : p >= bytes}
<1>1. PageSizes \subseteq Nat \ {0}
  BY ChipAssumption
<1>2. S # {} /\ S \in SUBSET Nat
  <2>1. PICK p \in PageSizes : ~ (p < bytes)
    OBVIOUS
  <2>2. p >= bytes
    BY <1>1, <2>1
  <2> QED
    BY <1>1, <2>1, <2>2
<1>3. PICK x \in S : \A y \in S : x <= y
  BY <1>2, LeastExists
<1>4. /\ pagesize(bytes) \in PageSizes
      /\ pagesize(bytes) >= bytes
  BY <1>3 DEF pagesize
<1> QED
  BY <1>1, <1>4

\* 16 pages of a sixteenth each are enough.
LEMMA PagesEnough ==
  ASSUME NEW q \in Nat, NEW size \in Nat \ {0}, size >= q
  PROVE  /\ (16 * q + size - 1) \div size \in Nat
         /\ (16 * q + size - 1) \div size <= 16
         /\ ((16 * q + size - 1) \div size) * size >= 16 * q
<1> DEFINE x == 16 * q + size - 1
           d == x \div size
           r == x % size
<1>1. x \in Nat
  OBVIOUS
<1>2. d \in Int /\ r \in 0 .. size - 1 /\ x = d * size + r
  <2> HIDE DEF x
  <2> QED
    BY <1>1
<1> HIDE DEF d, r
<1>3. d * size >= 16 * q
  BY <1>2
<1>4. d <= 16
  <2> SUFFICES ASSUME d >= 17 PROVE FALSE
    BY <1>2
  <2>1. d * size >= 17 * size
    BY <1>2
  <2>2. x <= 17 * size - 1
    OBVIOUS
  <2> QED
    BY <1>2, <2>1, <2>2
<1>5. d >= 0
  <2> SUFFICES ASSUME d <= -1 PROVE FALSE
    BY <1>2
  <2>1. d * size <= - size
    BY <1>2
  <2> QED
    BY <1>2, <2>1
<1> QED
  BY <1>2, <1>3, <1>4, <1>5 DEF d

LEMMA StackBytes ==
  ASSUME NEW num \in Nat
  PROVE  /\ buffer_stack_bytes(num) \in Nat /\ stack_bytes(num) \in Nat
         /\ stack_bytes(num) >= buffer_stack_bytes(num)
         /\ stack_bytes(num) % 128 = 0
         /\ needed(num) = stack_bytes(num) + num * 1664
         /\ needed(num) \div 16 \in Nat
         /\ needed(num) = 16 * (needed(num) \div 16)
<1>1. buffer_stack_bytes(num) \in Nat
  BY DEF buffer_stack_bytes
<1>2. PICK b \in Nat : b = buffer_stack_bytes(num)
  BY <1>1
<1>3. stack_bytes(num) = ((b + 127) \div 128) * 128
  BY <1>2 DEF stack_bytes, RoundUp
<1>4. PICK k \in Nat : k = (b + 127) \div 128
  OBVIOUS
<1>5. k * 128 >= b
  BY <1>4
<1>6. needed(num) = k * 128 + num * 1664
  BY <1>3, <1>4 DEF needed, buffer_size
<1>7. needed(num) = 16 * (k * 8 + num * 104)
  BY <1>6
<1>8. (16 * (k * 8 + num * 104)) \div 16 = k * 8 + num * 104
  OBVIOUS
<1>9. (k * 128) % 128 = 0
  OBVIOUS
<1> QED
  BY <1>2, <1>3, <1>4, <1>5, <1>6, <1>7, <1>8, <1>9

LEMMA PagesTaken ==
  ASSUME NEW num \in Nat, ~ \A p \in PageSizes : p < needed(num) \div 16
  PROVE  /\ pages(num) <= 16
         /\ stack_bytes(num) + num * buffer_size
              <= pages(num) * pagesize(needed(num) \div 16)
<1>1. PICK q \in Nat : q = needed(num) \div 16
  BY StackBytes
<1>2. needed(num) = 16 * q
  BY <1>1, StackBytes
<1>3. PICK size : size = pagesize(q)
  OBVIOUS
<1>4. size \in Nat \ {0} /\ size >= q
  BY <1>1, <1>3, PageFits
<1>5. pages(num) = (16 * q + size - 1) \div size
  BY <1>1, <1>2, <1>3 DEF pages
<1>6. pages(num) \in Nat /\ pages(num) <= 16 /\ pages(num) * size >= 16 * q
  BY <1>4, <1>5, PagesEnough
<1>7. needed(num) = stack_bytes(num) + num * 1664
  BY StackBytes
<1>8. stack_bytes(num) + num * 1664 <= pages(num) * size
  <2>1. stack_bytes(num) \in Nat
    BY StackBytes
  <2>2. pages(num) * size >= stack_bytes(num) + num * 1664
    BY <1>2, <1>6, <1>7
  <2> QED
    BY <1>4, <1>6, <2>1, <2>2
<1>9. pagesize(needed(num) \div 16) = size
  BY <1>1, <1>3
<1> QED
  BY <1>6, <1>8, <1>9 DEF buffer_size

LEMMA InMemory ==
  ASSUME SettledInv, RingsInv, MemoryInv
  PROVE  BuffersInMemory
<1> SUFFICES ASSUME NEW k \in DOMAIN chip.memory
             PROVE  LET m == chip.memory[k] IN
                      /\ m.number >= mpipe.equeue_entries
                           + Cardinality(chip.iqueues) * mpipe.notif_ring_entries
                      /\ m.first >= buffer_stack_bytes(m.number) /\ m.first % 128 = 0
                      /\ m.first + m.number * buffer_size <= m.bytes
                      /\ m.pages <= 16
  BY DEF BuffersInMemory
<1> DEFINE size == pagesize(needed(num_bufs) \div 16)
<1>1. stage \in Mapped
  BY DEF MemoryInv
<1>2. chip.memory[k] = [first |-> stack_bytes(num_bufs), number |-> num_bufs,
                        pages |-> pages(num_bufs), bytes |-> pages(num_bufs) * size]
  BY <1>1 DEF MemoryInv
<1>3. /\ mpipe.ring \in Nat /\ mpipe.num_workers \in Nat
      /\ mpipe.equeue_entries \in Nat /\ mpipe.notif_ring_entries \in Nat
  BY DEF SettledInv, Counts
<1>4. num_bufs \in Nat
  BY <1>3 DEF num_bufs
<1>5. Cardinality(chip.iqueues) = mpipe.num_workers
  <2>1. Initialised = mpipe.num_workers
    BY <1>1 DEF Initialised, NoRings, Mapped
  <2>2. chip.iqueues = mpipe.ring .. mpipe.ring + mpipe.num_workers - 1
    BY <2>1 DEF RingsInv
  <2>3. PICK a \in Int, b \in Int :
          a = mpipe.ring /\ b = mpipe.ring + mpipe.num_workers - 1
    BY <1>3
  <2>4. Cardinality(a .. b) = IF a > b THEN 0 ELSE b - a + 1
    BY FS_Interval
  <2>5. Cardinality(chip.iqueues) = IF a > b THEN 0 ELSE b - a + 1
    BY <2>2, <2>3, <2>4
  <2> QED
    BY <1>3, <2>3, <2>5
<1>6. PICK num \in Nat : num = num_bufs
  BY <1>4
<1>7. /\ pages(num) <= 16
      /\ stack_bytes(num) + num * buffer_size <= pages(num) * size
  BY <1>1, <1>6, PagesTaken DEF MemoryInv
<1> HIDE DEF size
<1>12. num >= mpipe.equeue_entries + Cardinality(chip.iqueues) * mpipe.notif_ring_entries
  <2>1. num = mpipe.equeue_entries + mpipe.num_workers * mpipe.notif_ring_entries
    BY <1>6 DEF num_bufs
  <2>2. num \in Nat
    OBVIOUS
  <2> QED
    BY <1>5, <2>1, <2>2
<1>13. stack_bytes(num) >= buffer_stack_bytes(num) /\ stack_bytes(num) % 128 = 0
  BY StackBytes
<1>14. chip.memory[k] = [first |-> stack_bytes(num), number |-> num,
                         pages |-> pages(num), bytes |-> pages(num) * size]
  BY <1>2, <1>6 DEF size
<1> QED
  BY <1>7, <1>12, <1>13, <1>14

(***************************************************************************)
(* Where a frame goes.                                                     *)
(***************************************************************************)

LEMMA PowersPositive ==
  ASSUME NEW x, IsPowerOf2(x)
  PROVE  x >= 1
<1>1. PICK k \in 0 .. 16 : x = 2 ^ k
  BY DEF IsPowerOf2
<1>2. k \in {0, 1, 2, 3, 4, 5, 6, 7, 8, 9, 10, 11, 12, 13, 14, 15, 16}
  OBVIOUS
<1>3. /\ 2 ^ 0 >= 1 /\ 2 ^ 1 >= 1 /\ 2 ^ 2 >= 1 /\ 2 ^ 3 >= 1 /\ 2 ^ 4 >= 1 /\ 2 ^ 5 >= 1
      /\ 2 ^ 6 >= 1 /\ 2 ^ 7 >= 1 /\ 2 ^ 8 >= 1 /\ 2 ^ 9 >= 1 /\ 2 ^ 10 >= 1
      /\ 2 ^ 11 >= 1 /\ 2 ^ 12 >= 1 /\ 2 ^ 13 >= 1 /\ 2 ^ 14 >= 1 /\ 2 ^ 15 >= 1
      /\ 2 ^ 16 >= 1
  OBVIOUS
<1> QED
  BY <1>1, <1>2, <1>3, Zenon

LEMMA OctetsDiffer ==
  ASSUME NEW a \in Nat, NEW k \in 1 .. 255, NEW w \in 1 .. 255,
         (a + (k - 1)) % 256 = (a + (w - 1)) % 256
  PROVE  k = w
OBVIOUS

\* Bucket ranges of equal size, one behind the other.
LEMMA BucketsDiffer ==
  ASSUME NEW a \in Nat, NEW size \in Nat, NEW k \in Nat, NEW w \in Nat, NEW b \in Int,
         b \in a + k * size .. a + k * size + size - 1,
         b \in a + w * size .. a + w * size + size - 1
  PROVE  k = w
<1>1. ASSUME NEW x \in Nat, NEW y \in Nat, x < y
      PROVE  x * size + size <= y * size
  <2>1. PICK d \in Nat : y = x + 1 + d
    <3>1. y - x - 1 \in Nat /\ y = x + 1 + (y - x - 1)
      BY <1>1
    <3> QED
      BY <3>1
  <2>2. y * size = x * size + size + d * size
    BY <2>1
  <2>3. d * size >= 0
    OBVIOUS
  <2> QED
    BY <2>2, <2>3
<1>2. /\ a + k * size <= b /\ b < a + k * size + size
      /\ a + w * size <= b /\ b < a + w * size + size
  OBVIOUS
<1>3. k * size \in Nat /\ w * size \in Nat
  OBVIOUS
<1>4. ~ (k < w)
  BY <1>1, <1>2, <1>3
<1>5. ~ (w < k)
  BY <1>1, <1>2, <1>3
<1> QED
  BY <1>4, <1>5

LEMMA OnlyOne ==
  ASSUME NEW w \in Int
  PROVE  FirstOf({w}) = w /\ LastOf({w}) = w
BY DEF FirstOf, LastOf

LEMMA OwnRing ==
  ASSUME SettledInv, ChipInv, stage = "ready", ~ chip.refused,
         NEW w \in 1 .. mpipe.num_workers
  PROVE  /\ RingsFor((mpipe.dmac + (w - 1)) % 256) = {mpipe.ring + w - 1}
         /\ mpipe.ring + w - 1 \in chip.iqueues
<1> DEFINE N == mpipe.num_workers
           size == mpipe.per_worker_buckets
           first == mpipe.bucket + (w - 1) * size
<1>1. /\ mpipe.ring \in Nat /\ mpipe.group \in Nat /\ mpipe.bucket \in Nat
      /\ N \in Nat /\ size \in Nat /\ mpipe.dmac \in Nat
  BY DEF SettledInv, Counts
<1>0. IsPowerOf2(mpipe.per_worker_buckets)
  <2>1. Ruled > 0
    BY <1>1 DEF Ruled
  <2> QED
    BY <2>1, Zenon DEF ChipInv, RulesInv
<1>2. N <= 255 /\ w \in 1 .. 255 /\ size >= 1
  <2>1. Cpus \in 0 .. 255 /\ N <= Cpus
    BY ChipAssumption DEF SettledInv
  <2> QED
    BY <1>1, <1>0, <2>1, PowersPositive
<1>3. Ruled = N
  BY DEF Ruled
<1>4. /\ DOMAIN chip.assigned = 1 .. N /\ DOMAIN chip.rules = 1 .. N
      /\ \A k \in 1 .. N :
           /\ chip.assigned[k].group = mpipe.group + (k - 1)
           /\ chip.assigned[k].ring = mpipe.ring + (k - 1)
           /\ chip.assigned[k].first = mpipe.bucket + (k - 1) * size
           /\ chip.rules[k].first = mpipe.bucket + (k - 1) * size
           /\ chip.rules[k].dmacs = {(mpipe.dmac + (k - 1)) % 256}
  <2>1. /\ \A k \in 1 .. N :
             chip.assigned[k] = Group(k - 1) /\ chip.rules[k] = RuleOf(k - 1)
        /\ Len(chip.assigned) = N /\ Len(chip.rules) = N
        /\ chip.assigned \in Seq(Groups) /\ chip.rules \in Seq(Rules)
    BY <1>3, Zenon DEF ChipInv, RulesInv
  <2>2. DOMAIN chip.assigned = 1 .. N /\ DOMAIN chip.rules = 1 .. N
    BY <2>1
  <2>3. \A k : BucketOf(k - 1) = mpipe.bucket + (k - 1) * size
    BY DEF BucketOf
  <2> HIDE DEF N, size
  <2>4. ASSUME NEW k \in 1 .. N
        PROVE  /\ chip.assigned[k].group = mpipe.group + (k - 1)
               /\ chip.assigned[k].ring = mpipe.ring + (k - 1)
               /\ chip.assigned[k].first = BucketOf(k - 1)
               /\ chip.rules[k].first = BucketOf(k - 1)
               /\ chip.rules[k].dmacs = {(mpipe.dmac + (k - 1)) % 256}
    <3>1. /\ chip.assigned[k] = Group(k - 1) /\ chip.rules[k] = RuleOf(k - 1)
      BY <2>1
    <3> QED
      BY <3>1 DEF Group, RuleOf, Dmac
  <2> QED
    BY <2>2, <2>3, <2>4, Zenon
<1> HIDE DEF N, size
<1>5. RulesFor((mpipe.dmac + (w - 1)) % 256) = {w}
  <2>1. \A k \in 1 .. N :
          (mpipe.dmac + (k - 1)) % 256 = (mpipe.dmac + (w - 1)) % 256 => k = w
    <3> SUFFICES ASSUME NEW k \in 1 .. N,
                        (mpipe.dmac + (k - 1)) % 256 = (mpipe.dmac + (w - 1)) % 256
                 PROVE  k = w
      OBVIOUS
    <3>1. k \in 1 .. 255
      BY <1>1, <1>2
    <3>2. PICK a \in Nat : a = mpipe.dmac
      BY <1>1
    <3> QED
      BY <1>2, <3>1, <3>2, OctetsDiffer
  <2>2. w \in 1 .. N
    BY DEF N
  <2>3. \A k \in 1 .. N :
          (\/ chip.rules[k].dmacs = {}
           \/ (mpipe.dmac + (w - 1)) % 256 \in chip.rules[k].dmacs) <=> k = w
    BY <1>4, <2>1, <2>2
  <2> QED
    BY <1>4, <2>2, <2>3 DEF RulesFor
<1>6. ASSUME NEW b \in Bucket(first)
      PROVE  GroupOf(b) = mpipe.group + (w - 1)
  <2>1. b \in first .. first + size - 1 /\ b \in Int
    BY <1>1, <1>6 DEF Bucket, size
  <2>2. ASSUME NEW k \in 1 .. N, b \in Bucket(chip.assigned[k].first)
        PROVE  k = w
    <3>1. b \in mpipe.bucket + (k - 1) * size .. mpipe.bucket + (k - 1) * size + size - 1
      BY <1>4, <2>2 DEF Bucket, size
    <3>2. k - 1 \in Nat /\ w - 1 \in Nat
      BY <1>1, <1>2
    <3>3. k - 1 = w - 1
      BY <1>1, <2>1, <3>1, <3>2, BucketsDiffer
    <3> QED
      BY <1>2, <3>3
  <2>3. w \in 1 .. N /\ b \in Bucket(chip.assigned[w].first)
    BY <1>4, <1>6 DEF N
  <2>4. {k \in DOMAIN chip.assigned : b \in Bucket(chip.assigned[k].first)} = {w}
    BY <1>4, <2>2, <2>3
  <2>5. LastOf({w}) = w
    <3>1. w \in Int
      BY <1>2
    <3> QED
      BY <3>1, OnlyOne
  <2> QED
    BY <1>4, <2>3, <2>4, <2>5 DEF GroupOf
<1>7. RingOf(mpipe.group + (w - 1)) = mpipe.ring + w - 1
  <2>1. w \in 1 .. N
    BY DEF N
  <2>2. {k \in DOMAIN chip.assigned : chip.assigned[k].group = mpipe.group + (w - 1)} = {w}
    <3>1. ASSUME NEW k \in 1 .. N, chip.assigned[k].group = mpipe.group + (w - 1)
          PROVE  k = w
      <4>1. mpipe.group + (k - 1) = mpipe.group + (w - 1)
        BY <1>4, <3>1
      <4> QED
        BY <1>1, <1>2, <4>1
    <3> QED
      BY <1>4, <2>1, <3>1
  <2>3. LastOf({w}) = w
    BY <1>2, OnlyOne
  <2>4. RingOf(mpipe.group + (w - 1)) = mpipe.ring + (w - 1)
    BY <1>4, <2>1, <2>2, <2>3 DEF RingOf
  <2> QED
    BY <1>1, <1>2, <2>4
<1>8. first \in Bucket(first)
  <2>1. (w - 1) * size \in Nat
    BY <1>1, <1>2
  <2>2. first \in Nat
    BY <1>1, <2>1
  <2> HIDE DEF first
  <2>3. first \in first .. first + size - 1
    BY <1>1, <1>2, <2>2
  <2> QED
    BY <2>3 DEF Bucket, size
<1>9. RingsFor((mpipe.dmac + (w - 1)) % 256)
        = {RingOf(GroupOf(b)) : b \in Bucket(first)}
  <2>1. FirstOf({w}) = w
    BY <1>2, OnlyOne
  <2>2. w \in 1 .. N
    BY DEF N
  <2>3. chip.rules[w].first = first
    BY <1>4, <2>2
  <2> QED
    BY <1>5, <2>1, <2>3 DEF RingsFor
<1> HIDE DEF first
<1>10. RingsFor((mpipe.dmac + (w - 1)) % 256) = {mpipe.ring + w - 1}
  BY <1>6, <1>7, <1>8, <1>9
<1>11. mpipe.ring + w - 1 \in chip.iqueues
  <2>1. chip.iqueues = mpipe.ring .. mpipe.ring + N - 1
    BY DEF ChipInv, RingsInv, Initialised, NoRings, N
  <2>2. w \in 1 .. N
    BY DEF N
  <2> QED
    BY <1>1, <2>1, <2>2
<1> QED
  BY <1>10, <1>11

(***************************************************************************)
(* Ranges and checksums.                                                   *)
(***************************************************************************)

LEMMA ModSmall ==
  ASSUME NEW m \in Nat \ {0}, NEW x \in Nat, x < m + m
  PROVE  x % m = IF x < m THEN x ELSE x - m
<1>1. x % m \in 0 .. m - 1 /\ x = (x \div m) * m + (x % m) /\ x \div m \in Int
  OBVIOUS
<1> DEFINE q == x \div m
           r == x % m
<1>2. q \in Int /\ r \in 0 .. m - 1 /\ x = q * m + r
  BY <1>1
<1> HIDE DEF q, r
<1>3. q <= 1
  <2> SUFFICES ASSUME q >= 2 PROVE FALSE
    BY <1>2
  <2>1. q * m >= 2 * m
    BY <1>2
  <2> QED
    BY <1>2, <2>1
<1>4. q >= 0
  <2> SUFFICES ASSUME q <= -1 PROVE FALSE
    BY <1>2
  <2>1. q * m <= - m
    BY <1>2
  <2> QED
    BY <1>2, <2>1
<1>5. q = 0 \/ q = 1
  BY <1>2, <1>3, <1>4
<1>6. CASE q = 0
  BY <1>2, <1>6 DEF r
<1>7. CASE q = 1
  BY <1>2, <1>7 DEF r
<1> QED
  BY <1>5, <1>6, <1>7

LEMMA ModNext ==
  ASSUME NEW m \in Nat \ {0}, NEW k \in Nat
  PROVE  /\ k % m \in 0 .. m - 1
         /\ (k + 1) % m = IF k % m = m - 1 THEN 0 ELSE (k % m) + 1
<1> DEFINE q == k \div m
           r == k % m
           s == (k + 1) \div m
           t == (k + 1) % m
<1>1. q \in Int /\ r \in 0 .. m - 1 /\ k = q * m + r
  OBVIOUS
<1>2. s \in Int /\ t \in 0 .. m - 1 /\ k + 1 = s * m + t
  OBVIOUS
<1> HIDE DEF q, r, s, t
<1>3. (s - q) * m = r + 1 - t
  BY <1>1, <1>2
<1>4. s - q <= 1
  <2> SUFFICES ASSUME s - q >= 2 PROVE FALSE
    BY <1>1, <1>2
  <2>1. (s - q) * m >= 2 * m
    BY <1>1, <1>2
  <2> QED
    BY <1>1, <1>2, <1>3, <2>1
<1>5. s - q >= 0
  <2> SUFFICES ASSUME s - q <= -1 PROVE FALSE
    BY <1>1, <1>2
  <2>1. (s - q) * m <= - m
    BY <1>1, <1>2
  <2> QED
    BY <1>1, <1>2, <1>3, <2>1
<1>6. s - q = 0 \/ s - q = 1
  BY <1>1, <1>2, <1>4, <1>5
<1>7. CASE s - q = 0
  <2>1. t = r + 1
    BY <1>1, <1>2, <1>3, <1>7
  <2> QED
    BY <1>1, <1>2, <2>1 DEF r, t
<1>8. CASE s - q = 1
  <2>1. t = r + 1 - m
    BY <1>1, <1>2, <1>3, <1>8
  <2>2. r = m - 1 /\ t = 0
    BY <1>1, <1>2, <2>1
  <2> QED
    BY <1>1, <2>2 DEF r, t
<1> QED
  BY <1>6, <1>7, <1>8

\* A range after k packets.
After(r, k) == [r EXCEPT !.cur = (r.min + (k % RangeSize(r))) % Uint32]

LEMMA RangeStarts ==
  ASSUME NEW r \in [{"min", "cur", "max"} -> 0 .. Uint32 - 1], r.cur = r.min
  PROVE  After(r, 0) = r
<1>1. Uint32 \in Nat \ {0} /\ r.min \in 0 .. Uint32 - 1 /\ r.max \in 0 .. Uint32 - 1
  BY InputAssumption
<1>2. RangeSize(r) \in Nat \ {0}
  BY <1>1 DEF RangeSize
<1>3. 0 % RangeSize(r) = 0
  BY <1>2, ModSmall
<1>4. r.min % Uint32 = r.min
  BY <1>1, ModSmall
<1> QED
  BY <1>1, <1>3, <1>4 DEF After

LEMMA RangeAdvances ==
  ASSUME NEW r \in [{"min", "cur", "max"} -> 0 .. Uint32 - 1], NEW k \in Nat
  PROVE  GET_NEXT(After(r, k)) = After(r, k + 1)
<1>1. Uint32 \in Nat \ {0} /\ r.min \in 0 .. Uint32 - 1 /\ r.max \in 0 .. Uint32 - 1
  BY InputAssumption
<1>2. PICK u \in Nat \ {0}, a \in Nat, b \in Nat :
        u = Uint32 /\ a = r.min /\ b = r.max /\ a < u /\ b < u
  BY <1>1
<1>3. PICK size \in Nat \ {0} :
        size = RangeSize(r) /\ size = (IF b >= a THEN b - a ELSE b + u - a) + 1
  <2>1. b + u - a \in Nat /\ b + u - a < u + u
    BY <1>2
  <2>2. (b + u - a) % u = IF b + u - a < u THEN b + u - a ELSE b + u - a - u
    <3>1. PICK x \in Nat : x = b + u - a /\ x < u + u
      BY <2>1
    <3>2. x % u = IF x < u THEN x ELSE x - u
      BY <3>1, ModSmall
    <3> QED
      BY <3>1, <3>2
  <2>3. RangeSize(r) = 1 + ((b + u - a) % u)
    BY <1>2 DEF RangeSize
  <2>4. RangeSize(r) = (IF b >= a THEN b - a ELSE b + u - a) + 1
    BY <1>2, <2>2, <2>3
  <2> QED
    BY <1>2, <2>4
<1>4. PICK j \in 0 .. size - 1 :
        /\ j = k % size
        /\ (k + 1) % size = IF j = size - 1 THEN 0 ELSE j + 1
  BY ModNext
<1>5. (a + j) % u = IF a + j < u THEN a + j ELSE a + j - u
  <2>1. a + j \in Nat /\ a + j < u + u
    BY <1>2, <1>3
  <2>2. PICK x \in Nat : x = a + j /\ x < u + u
    BY <2>1
  <2>3. x % u = IF x < u THEN x ELSE x - u
    BY <2>2, ModSmall
  <2> QED
    BY <2>2, <2>3
<1>6. PICK c : c = (a + j) % u
  OBVIOUS
<1>7. c \in 0 .. u - 1 /\ (c = b <=> j = size - 1)
  BY <1>2, <1>3, <1>5, <1>6
<1>8. After(r, k) = [r EXCEPT !.cur = c]
  BY <1>2, <1>3, <1>4, <1>6 DEF After
<1>9. GET_NEXT(After(r, k)) = [r EXCEPT !.cur = IF c = b THEN a ELSE (c + 1) % u]
  BY <1>2, <1>8 DEF GET_NEXT
<1>10. (a + ((k + 1) % size)) % u = IF c = b THEN a ELSE (c + 1) % u
  <2>1. CASE j = size - 1
    <3>1. a % u = a
      BY <1>2, ModSmall
    <3> QED
      BY <1>2, <1>4, <1>7, <2>1, <3>1
  <2>2. CASE j # size - 1
    <3>1. a + (j + 1) \in Nat /\ a + (j + 1) < u + u /\ c + 1 \in Nat /\ c + 1 < u + u
      BY <1>2, <1>3, <1>7, <2>2
    <3>2. (a + (j + 1)) % u = IF a + (j + 1) < u THEN a + (j + 1) ELSE a + (j + 1) - u
      <4>1. PICK x \in Nat : x = a + (j + 1) /\ x < u + u
        BY <3>1
      <4>2. x % u = IF x < u THEN x ELSE x - u
        BY <4>1, ModSmall
      <4> QED
        BY <4>1, <4>2
    <3>3. (c + 1) % u = IF c + 1 < u THEN c + 1 ELSE c + 1 - u
      <4>1. PICK x \in Nat : x = c + 1 /\ x < u + u
        BY <3>1
      <4>2. x % u = IF x < u THEN x ELSE x - u
        BY <4>1, ModSmall
      <4> HIDE <1>6
      <4> QED
        BY <1>7, <4>1, <4>2
    <3>4. (a + (j + 1)) % u = (c + 1) % u
      BY <1>2, <1>3, <1>5, <1>6, <2>2, <3>2, <3>3
    <3> QED
      BY <1>4, <1>7, <2>2, <3>4
  <2> QED
    BY <2>1, <2>2
<1> QED
  BY <1>2, <1>3, <1>9, <1>10 DEF After

\* One round of the loop of ip_xsum takes a multiple of 65535 off.
LEMMA OneRound ==
  ASSUME NEW y \in Nat, y >= 65536
  PROVE  \E z \in Nat, a \in Nat :
           /\ z = (y % 65536) + (y \div 65536)
           /\ z > 0 /\ z < y /\ y = z + 65535 * a
<1>1. PICK b \in Nat, a \in Nat : b = y % 65536 /\ a = y \div 65536 /\ y = 65536 * a + b
  OBVIOUS
<1>2. b + a \in Nat /\ b + a > 0 /\ b + a < y /\ y = (b + a) + 65535 * a
  BY <1>1
<1> QED
  BY <1>1, <1>2

\* What it leaves of a sum: less than 65536, and the same modulo 65535.
Left(c, y) == /\ c[y] \in Nat /\ c[y] <= 65535
              /\ \E q \in Nat : y = c[y] + 65535 * q

Carries(c) ==
  \A y \in Nat : c[y] = IF y < 65536 THEN y ELSE c[(y % 65536) + (y \div 65536)]

LEMMA RoundKeeps ==
  ASSUME NEW c, Carries(c), NEW y \in Nat, \A z \in Nat : z < y => Left(c, z)
  PROVE  Left(c, y)
<1>1. CASE y < 65536
  <2>1. c[y] = y
    BY <1>1 DEF Carries
  <2>2. y <= 65535
    BY <1>1, SMT
  <2>3. \E q \in Nat : y = y + 65535 * q
    <3> WITNESS 0 \in Nat
    <3> QED
      BY SMT
  <2> QED
    BY <2>1, <2>2, <2>3, SMT DEF Left
<1>2. CASE y >= 65536
  <2>1. PICK z \in Nat, a \in Nat :
          /\ z = (y % 65536) + (y \div 65536)
          /\ z > 0 /\ z < y /\ y = z + 65535 * a
    BY <1>2, OneRound
  <2>2. c[y] = c[z]
    <3>1. c[y] = IF y < 65536 THEN y ELSE c[(y % 65536) + (y \div 65536)]
      BY SMT DEF Carries
    <3>2. ~ (y < 65536)
      BY <1>2, SMT
    <3> QED
      BY <2>1, <3>1, <3>2, SMT
  <2>3. Left(c, z)
    BY <2>1
  <2>4. PICK q \in Nat, m \in Nat : m = c[z] /\ m <= 65535 /\ z = m + 65535 * q
    BY <2>3, SMT DEF Left
  <2>5. y = m + 65535 * (q + a) /\ q + a \in Nat
    BY <2>1, <2>4, SMT
  <2>6. \E p \in Nat : y = m + 65535 * p
    <3> WITNESS q + a \in Nat
    <3> QED
      BY <2>5, SMT
  <2> QED
    <3>1. c[y] = m
      BY <2>2, <2>4, SMT
    <3>2. c[y] \in Nat /\ c[y] <= 65535
      <4>1. m \in Nat /\ m <= 65535
        BY <2>4, SMT
      <4> QED
        BY <3>1, <4>1, SMT
    <3>3. \E p \in Nat : y = c[y] + 65535 * p
      BY <2>6, <3>1, SMT
    <3> QED
      BY <3>2, <3>3, SMT DEF Left
<1> QED
  BY <1>1, <1>2

LEMMA AllLeft ==
  ASSUME NEW c, Carries(c), NEW x \in Nat
  PROVE  Left(c, x)
<1> DEFINE Bad == {y \in Nat : ~ Left(c, y)}
<1>1. Bad \in SUBSET Nat
  OBVIOUS
<1>2. \A y \in Nat : (\A z \in Nat : z < y => Left(c, z)) => Left(c, y)
  BY RoundKeeps
<1>3. Bad = {}
  <2> SUFFICES ASSUME Bad # {} PROVE FALSE
    OBVIOUS
  <2>1. PICK y \in Bad : \A z \in Bad : y <= z
    BY <1>1, LeastExists, Zenon
  <2>2. \A z \in Nat : z < y => z \notin Bad
    BY <1>1, <2>1
  <2> QED
    BY <1>2, <2>1, <2>2
<1> QED
  BY <1>3

LEMMA CarryLeaves ==
  ASSUME NEW x \in Nat
  PROVE  /\ Carry(x) \in Nat /\ Carry(x) <= 65535
         /\ \E q \in Nat : x = Carry(x) + 65535 * q
<1> DEFINE carry == CHOOSE c : c = [y \in Nat |-> IF y < 65536 THEN y
                                      ELSE c[(y % 65536) + (y \div 65536)]]
<1>1. Carry(x) = carry[x]
  BY DEF Carry
<1> DEFINE closed == [y \in Nat |-> IF y = 0 THEN 0 ELSE ((y - 1) % 65535) + 1]
<1>2. ASSUME NEW y \in Nat
      PROVE  closed[y] = IF y < 65536 THEN y ELSE closed[(y % 65536) + (y \div 65536)]
  <2>1. CASE y < 65536
    BY <2>1
  <2>2. CASE y >= 65536
    <3>1. PICK z \in Nat, a \in Nat :
            /\ z = (y % 65536) + (y \div 65536)
            /\ z > 0 /\ z < y /\ y = z + 65535 * a
      BY <2>2, OneRound
    <3>2. ((z + 65535 * a) - 1) % 65535 = (z - 1) % 65535
      BY <3>1
    <3>3. closed[y] = ((y - 1) % 65535) + 1 /\ closed[z] = ((z - 1) % 65535) + 1
      BY <2>2, <3>1
    <3>4. closed[y] = closed[z]
      BY <3>1, <3>2, <3>3
    <3> HIDE DEF closed
    <3> QED
      BY <2>2, <3>1, <3>4
  <2> QED
    BY <2>1, <2>2
<1>3. closed = [y \in Nat |-> closed[y]]
  OBVIOUS
<1> HIDE DEF closed
<1>4. closed = [y \in Nat |-> IF y < 65536 THEN y
                                ELSE closed[(y % 65536) + (y \div 65536)]]
  <2> DEFINE G == [y \in Nat |-> IF y < 65536 THEN y
                                   ELSE closed[(y % 65536) + (y \div 65536)]]
  <2>1. \A y \in Nat : closed[y] = G[y]
    BY <1>2, SMT
  <2>2. G = [y \in Nat |-> G[y]]
    BY SMT
  <2> HIDE DEF G
  <2>3. closed = G
    BY <1>3, <2>1, <2>2, SMT
  <2> QED
    BY <2>3, SMT DEF G
<1>5. carry = [y \in Nat |-> IF y < 65536 THEN y
                               ELSE carry[(y % 65536) + (y \div 65536)]]
  BY <1>4
<1> HIDE DEF carry
<1>6. Carries(carry)
  BY <1>5 DEF Carries
<1>7. Left(carry, x)
  BY <1>6, AllLeft
<1>8. PICK q \in Nat : x = carry[x] + 65535 * q
  BY <1>7, SMT DEF Left
<1>9. carry[x] \in Nat /\ carry[x] <= 65535
  BY <1>7, SMT DEF Left
<1>10. x = Carry(x) + 65535 * q /\ Carry(x) \in Nat /\ Carry(x) <= 65535
  BY <1>1, <1>8, <1>9, SMT
<1> QED
  BY <1>10, SMT

\* The sum of ten words.
Ten(w) ==
  /\ w = <<w[1], w[2], w[3], w[4], w[5], w[6], w[7], w[8], w[9], w[10]>>
  /\ w[1] \in Nat /\ w[2] \in Nat /\ w[3] \in Nat /\ w[4] \in Nat /\ w[5] \in Nat
  /\ w[6] \in Nat /\ w[7] \in Nat /\ w[8] \in Nat /\ w[9] \in Nat /\ w[10] \in Nat

LEMMA TenWords ==
  ASSUME NEW w, Ten(w)
  PROVE  WordSum(w) = w[1] + w[2] + w[3] + w[4] + w[5]
                        + w[6] + w[7] + w[8] + w[9] + w[10]
<1>1. PICK a1 \in Nat, a2 \in Nat, a3 \in Nat, a4 \in Nat, a5 \in Nat :
        w[1] = a1 /\ w[2] = a2 /\ w[3] = a3 /\ w[4] = a4 /\ w[5] = a5
  BY DEF Ten
<1>a. PICK a6 \in Nat, a7 \in Nat, a8 \in Nat, a9 \in Nat, a10 \in Nat :
        w[6] = a6 /\ w[7] = a7 /\ w[8] = a8 /\ w[9] = a9 /\ w[10] = a10
  BY DEF Ten
<1>2. /\ Len(w) = 10
      /\ w[1] = a1 /\ w[2] = a2 /\ w[3] = a3 /\ w[4] = a4 /\ w[5] = a5
      /\ w[6] = a6 /\ w[7] = a7 /\ w[8] = a8 /\ w[9] = a9 /\ w[10] = a10
  <2>1. Len(w) = 10
    BY DEF Ten
  <2> QED
    BY <1>1, <1>a, <2>1
<1> DEFINE sum == CHOOSE s : s = [k \in 0 .. 10 |-> IF k = 0 THEN 0 ELSE s[k - 1] + w[k]]
<1>3. WordSum(w) = sum[10]
  BY <1>2 DEF WordSum
<1>4. PICK s2 \in Nat, s3 \in Nat, s4 \in Nat, s5 \in Nat :
        s2 = a1 + a2 /\ s3 = s2 + a3 /\ s4 = s3 + a4 /\ s5 = s4 + a5
  OBVIOUS
<1>5. PICK s6 \in Nat, s7 \in Nat, s8 \in Nat, s9 \in Nat, s10 \in Nat :
        /\ s6 = s5 + a6 /\ s7 = s6 + a7 /\ s8 = s7 + a8 /\ s9 = s8 + a9 /\ s10 = s9 + a10
  OBVIOUS
<1> DEFINE all == [k \in 0 .. 10 |->
                     CASE k = 0 -> 0  [] k = 1 -> a1 [] k = 2 -> s2 [] k = 3 -> s3
                       [] k = 4 -> s4 [] k = 5 -> s5 [] k = 6 -> s6 [] k = 7 -> s7
                       [] k = 8 -> s8 [] k = 9 -> s9 [] OTHER -> s10]
<1>6. /\ all[0] = 0 /\ all[1] = a1 /\ all[2] = s2 /\ all[3] = s3 /\ all[4] = s4
      /\ all[5] = s5 /\ all[6] = s6 /\ all[7] = s7 /\ all[8] = s8 /\ all[9] = s9
      /\ all[10] = s10 /\ all = [k \in 0 .. 10 |-> all[k]]
  OBVIOUS
<1> HIDE DEF all
<1>7. ASSUME NEW k \in 0 .. 10
      PROVE  all[k] = IF k = 0 THEN 0 ELSE all[k - 1] + w[k]
  <2>1. k \in {0, 1, 2, 3, 4, 5, 6, 7, 8, 9, 10}
    OBVIOUS
  <2>2. CASE k \in {0, 1, 2, 3, 4, 5}
    BY <1>2, <1>4, <1>6, <2>2
  <2>3. CASE k \in {6, 7, 8, 9, 10}
    BY <1>2, <1>5, <1>6, <2>3
  <2> QED
    BY <2>1, <2>2, <2>3
<1>8. all = [k \in 0 .. 10 |-> IF k = 0 THEN 0 ELSE all[k - 1] + w[k]]
  BY <1>6, <1>7
<1>9. sum = [k \in 0 .. 10 |-> IF k = 0 THEN 0 ELSE sum[k - 1] + w[k]]
  BY <1>8
<1> HIDE DEF sum
<1>10. \A k \in 0 .. 10 : sum[k] = IF k = 0 THEN 0 ELSE sum[k - 1] + w[k]
  BY <1>9
<1>11. sum[0] = 0 /\ sum[1] = a1
  BY <1>2, <1>10
<1>12. sum[2] = s2 /\ sum[3] = s3 /\ sum[4] = s4 /\ sum[5] = s5
  BY <1>2, <1>4, <1>10, <1>11
<1>13. sum[6] = s6 /\ sum[7] = s7 /\ sum[8] = s8 /\ sum[9] = s9 /\ sum[10] = s10
  BY <1>2, <1>5, <1>10, <1>12
<1>14. s10 = a1 + a2 + a3 + a4 + a5 + a6 + a7 + a8 + a9 + a10
  BY <1>4, <1>5
<1> QED
  BY <1>2, <1>3, <1>13, <1>14

(***************************************************************************)
(* The packets.                                                            *)
(***************************************************************************)

\* The settings of a worker after k packets.
Advanced(c, k) ==
  [f \in Settings |-> IF f \in Ranges THEN After(c[f], k) ELSE c[f]]

LEMMA NothingAdvanced ==
  ASSUME NEW c, ConfigOK(c)
  PROVE  Advanced(c, 0) = c
<1>1. \A f \in Ranges : After(c[f], 0) = c[f]
  BY RangeStarts DEF ConfigOK
<1> QED
  BY <1>1 DEF Advanced, ConfigOK

LEMMA PacketAdvances ==
  ASSUME NEW c, ConfigOK(c), NEW k \in Nat
  PROVE  AfterPacket(Advanced(c, k)) = Advanced(c, k + 1)
<1>1. \A f \in Ranges : GET_NEXT(After(c[f], k)) = After(c[f], k + 1)
  BY RangeAdvances DEF ConfigOK
<1>2. Ranges = {"saddr", "daddr", "sport", "dport"}
  BY DEF Ranges
<1> QED
  BY <1>1, <1>2 DEF Advanced, AfterPacket

Blank(c, old, payload) ==
  [length |-> c["pktlen"], old |-> old, payload |-> payload,
   source |-> GET_NEXT(c["sport"]).cur % 65536,
   dest   |-> GET_NEXT(c["dport"]).cur % 65536,
   saddr  |-> GET_NEXT(c["saddr"]).cur, daddr |-> GET_NEXT(c["daddr"]).cur,
   check  |-> old.check, udp_check |-> 0,
   h_dest |-> c["dstmac"], h_source |-> c["srcmac"]]

Addressed(p, octet) == [p EXCEPT !.h_dest = octet]

LEMMA PacketFields ==
  ASSUME NEW c, NEW old, NEW payload, NEW octet
  PROVE  LET p == Addressed(generator_udp_packet(c, old, payload), octet)
             b == Blank(c, old, payload) IN
           /\ p.length = c["pktlen"] /\ p.old = old
           /\ p.source = GET_NEXT(c["sport"]).cur % 65536
           /\ p.dest = GET_NEXT(c["dport"]).cur % 65536
           /\ p.saddr = GET_NEXT(c["saddr"]).cur /\ p.daddr = GET_NEXT(c["daddr"]).cur
           /\ p.check = Complement(ip_xsum(IpWords(b), 0))
           /\ p.h_dest = octet
           /\ generator_udp_packet(c, old, payload).h_dest = c["dstmac"]
<1> DEFINE b == Blank(c, old, payload)
<1>1. PICK x, y : /\ x = Complement(ip_xsum(IpWords(b), 0))
                  /\ y = Complement(ip_xsum(UdpWords(b), Low(23 + b.length - 34)))
  OBVIOUS
<1>5. generator_udp_packet(c, old, payload) = [b EXCEPT !.check = x, !.udp_check = y]
  <2>1. generator_udp_packet(c, old, payload) = pop_iplayer_udp(b)
    BY DEF generator_udp_packet, Blank
  <2> HIDE DEF b
  <2>2. pop_iplayer_udp(b) = [b EXCEPT !.check = x, !.udp_check = y]
    BY <1>1 DEF pop_iplayer_udp
  <2> QED
    BY <2>1, <2>2
<1>6. PICK s, d, sa, da : /\ s = GET_NEXT(c["sport"]).cur % 65536
                          /\ d = GET_NEXT(c["dport"]).cur % 65536
                          /\ sa = GET_NEXT(c["saddr"]).cur /\ da = GET_NEXT(c["daddr"]).cur
  OBVIOUS
<1>7. b = [length |-> c["pktlen"], old |-> old, payload |-> payload, source |-> s,
           dest |-> d, saddr |-> sa, daddr |-> da, check  |-> old.check, udp_check |-> 0,
           h_dest |-> c["dstmac"], h_source |-> c["srcmac"]]
  BY <1>6 DEF Blank
<1>8. Addressed(generator_udp_packet(c, old, payload), octet)
        = [length |-> c["pktlen"], old |-> old, payload |-> payload, source |-> s,
           dest |-> d, saddr |-> sa, daddr |-> da, check  |-> x, udp_check |-> y,
           h_dest |-> octet, h_source |-> c["srcmac"]]
  <2> HIDE DEF b
  <2>2. generator_udp_packet(c, old, payload)
          = [length |-> c["pktlen"], old |-> old, payload |-> payload, source |-> s,
             dest |-> d, saddr |-> sa, daddr |-> da, check  |-> x, udp_check |-> y,
             h_dest |-> c["dstmac"], h_source |-> c["srcmac"]]
    BY <1>5, <1>7
  <2> QED
    BY <2>2 DEF Addressed
<1>9. generator_udp_packet(c, old, payload).h_dest = c["dstmac"]
  <2> HIDE DEF b
  <2> QED
    BY <1>5, <1>7
<1> QED
  BY <1>1, <1>6, <1>8, <1>9

LEMMA WordParts ==
  ASSUME NEW x \in Nat
  PROVE  High(x) \in Nat /\ Low(x) \in Nat
BY DEF High, Low

\* A checksum taken over a field that was 0 makes the sum of all words a
\* multiple of 65535.
LEMMA ChecksumVerifies ==
  ASSUME NEW x \in Nat, x > 0
  PROVE  /\ Complement(Carry(x)) \in Nat
         /\ Verifies(x + Complement(Carry(x)))
<1>1. PICK c \in Nat, q \in Nat : c = Carry(x) /\ c <= 65535 /\ x = c + 65535 * q
  <2>1. Carry(x) \in Nat /\ Carry(x) <= 65535
    BY CarryLeaves, SMT
  <2>2. PICK q \in Nat : x = Carry(x) + 65535 * q
    BY CarryLeaves, SMT
  <2> QED
    BY <2>1, <2>2, SMT
<1>2. Complement(Carry(x)) = 65535 - c
  BY <1>1, SMT DEF Complement
<1>3. 65535 - c \in Nat /\ x + (65535 - c) = 65535 * (q + 1)
  BY <1>1, SMT
<1>4. (65535 * (q + 1)) % 65535 = 0 /\ 65535 * (q + 1) > 0
  BY SMT
<1> QED
  BY <1>2, <1>3, <1>4, SMT DEF Verifies

LEMMA IpHeaderVerifies ==
  ASSUME NEW p, NEW b,
         p.old = b.old, p.length = b.length, p.saddr = b.saddr, p.daddr = b.daddr,
         b.old.tos \in Nat, b.old.id \in Nat, b.old.frag_off \in Nat,
         b.length - 14 \in Nat, b.saddr \in Nat, b.daddr \in Nat, b.check = 0,
         p.check = Complement(ip_xsum(IpWords(b), 0))
  PROVE  IpVerifies(p)
<1>1. PICK a1 \in Nat, a2 \in Nat, a3 \in Nat, a4 \in Nat, a5 \in Nat :
        /\ a1 = 17664 + b.old.tos /\ a2 = Low(b.length - 14) /\ a3 = b.old.id
        /\ a4 = b.old.frag_off /\ a5 = 64 * 256 + 17 /\ a5 > 0
  <2>1. Low(b.length - 14) \in Nat
    BY WordParts
  <2> QED
    BY <2>1, SMT
<1>2. PICK a7 \in Nat, a8 \in Nat, a9 \in Nat, a10 \in Nat :
        /\ a7 = High(b.saddr) /\ a8 = Low(b.saddr) /\ a9 = High(b.daddr)
        /\ a10 = Low(b.daddr)
  <2>1. High(b.saddr) \in Nat /\ Low(b.saddr) \in Nat
    BY WordParts
  <2>2. High(b.daddr) \in Nat /\ Low(b.daddr) \in Nat
    BY WordParts
  <2> QED
    BY <2>1, <2>2
<1>3. IpWords(b) = <<a1, a2, a3, a4, a5, 0, a7, a8, a9, a10>>
  BY <1>1, <1>2, SMT DEF IpWords
<1>4. PICK x \in Nat :
        x = a1 + a2 + a3 + a4 + a5 + 0 + a7 + a8 + a9 + a10 /\ x > 0
  BY <1>1, SMT
<1>5. WordSum(IpWords(b)) = x
  <2>1. PICK w : w = IpWords(b)
    OBVIOUS
  <2>2. /\ w[1] = a1 /\ w[2] = a2 /\ w[3] = a3 /\ w[4] = a4 /\ w[5] = a5
        /\ w[6] = 0 /\ w[7] = a7 /\ w[8] = a8 /\ w[9] = a9 /\ w[10] = a10
    BY <1>3, <2>1, SMT
  <2>3. Ten(w)
    BY <1>3, <2>1, <2>2, SMT DEF Ten
  <2> QED
    BY <1>4, <2>1, <2>2, <2>3, TenWords, SMT
<1>6. p.check = Complement(Carry(x))
  <2>1. 0 + x = x
    BY SMT
  <2> QED
    BY <1>5, <2>1, SMT DEF ip_xsum
<1>7. PICK a6 \in Nat : a6 = Complement(Carry(x)) /\ Verifies(x + a6)
  BY <1>4, ChecksumVerifies, SMT
<1>8. IpWords(p) = <<a1, a2, a3, a4, a5, a6, a7, a8, a9, a10>>
  BY <1>1, <1>2, <1>6, <1>7, SMT DEF IpWords
<1>9. WordSum(IpWords(p)) = a1 + a2 + a3 + a4 + a5 + a6 + a7 + a8 + a9 + a10
  <2>1. PICK w : w = IpWords(p)
    OBVIOUS
  <2>2. /\ w[1] = a1 /\ w[2] = a2 /\ w[3] = a3 /\ w[4] = a4 /\ w[5] = a5
        /\ w[6] = a6 /\ w[7] = a7 /\ w[8] = a8 /\ w[9] = a9 /\ w[10] = a10
    BY <1>8, <2>1, SMT
  <2>3. Ten(w)
    BY <1>8, <2>1, <2>2, SMT DEF Ten
  <2> QED
    BY <2>1, <2>2, <2>3, TenWords, SMT
<1>10. a1 + a2 + a3 + a4 + a5 + a6 + a7 + a8 + a9 + a10 = x + a6
  BY <1>4, SMT
<1> QED
  BY <1>7, <1>9, <1>10, SMT DEF IpVerifies

(***************************************************************************)
(* The workers.                                                            *)
(***************************************************************************)

\* The k-th packet of a worker, with the address of worker w.
IsSent(c, w, k, p) ==
  \E old \in OldHeaders, payload \in PayloadOf(c) :
    p = Addressed(generator_udp_packet(Advanced(c, k - 1), old, payload),
                  (c["dstmac"] + w - 1) % 256)

Sendable(c) ==
  {Addressed(generator_udp_packet(Advanced(c, k), old, payload), octet) :
     k \in Nat, old \in OldHeaders, payload \in PayloadOf(c), octet \in Int}

\* Each worker's settings have gone as far as its packets.
WorkersInv ==
  /\ made \in Seq(Seq(Sendable(config)))
  /\ generator \in Seq({Advanced(config, k) : k \in Nat})
  /\ Len(generator) = Len(made)
  /\ Len(made) = IF stage = "ready" THEN n ELSE 0
  /\ stage = "ready" => n <= mpipe.num_workers
  /\ \A w \in 1 .. Len(made) :
       /\ generator[w] = Advanced(config, Len(made[w]))
       /\ made[w] # <<>> => PayloadBytes(config) >= 0
       /\ \A k \in 1 .. Len(made[w]) : IsSent(config, w, k, made[w][k])

LEMMA WorkersInit == Init => WorkersInv
<1> SUFFICES ASSUME Init PROVE WorkersInv
  OBVIOUS
<1>1. generator = <<>> /\ made = <<>> /\ stage = "config"
  BY DEF Init, MpipeInitInit
<1>2. /\ made \in Seq(Seq(Sendable(config)))
      /\ generator \in Seq({Advanced(config, k) : k \in Nat})
  BY <1>1
<1>3. Len(made) = 0 /\ Len(generator) = 0
  BY <1>1
<1> QED
  BY <1>1, <1>2, <1>3 DEF WorkersInv

\* Before there are workers.
LEMMA NoWorkers ==
  ASSUME WorkersInv, stage # "ready", UNCHANGED <<generator, made>>,
         stage' = "ready" => n' = 0, SettledInv'
  PROVE  WorkersInv'
<1>1. Len(made) = 0 /\ Len(generator) = 0
  BY DEF WorkersInv
<1>2. generator = <<>> /\ made = <<>>
  BY <1>1 DEF WorkersInv
<1>3. /\ made' \in Seq(Seq(Sendable(config')))
      /\ generator' \in Seq({Advanced(config', k) : k \in Nat})
  BY <1>2
<1>4. Len(made') = IF stage' = "ready" THEN n' ELSE 0
  BY <1>1
<1>5. stage' = "ready" => n' <= mpipe'.num_workers
  <2>1. mpipe'.num_workers \in Nat
    BY DEF SettledInv, Counts
  <2> QED
    BY <2>1
<1>6. (\A w \in 1 .. Len(made) :
         /\ generator[w] = Advanced(config, Len(made[w]))
         /\ made[w] # <<>> => PayloadBytes(config) >= 0
         /\ \A k \in 1 .. Len(made[w]) : IsSent(config, w, k, made[w][k]))'
  BY <1>1
<1> QED
  BY <1>1, <1>3, <1>4, <1>5, <1>6 DEF WorkersInv

LEMMA WorkersStay ==
  ASSUME WorkersInv, UNCHANGED <<stage, n, mpipe, config, generator, made>>
  PROVE  WorkersInv'
BY DEF WorkersInv, Sendable, PayloadOf, PayloadBytes, IsSent

LEMMA CreateKeeps ==
  ASSUME OptionsInv, SettledInv, WorkersInv, CreateWorker
  PROVE  WorkersInv'
<1>1. /\ stage = "ready" /\ stage' = stage /\ n < config["num_workers"] /\ n' = n + 1
      /\ generator' = Append(generator, config) /\ made' = Append(made, <<>>)
      /\ UNCHANGED <<config, mpipe>>
  BY DEF CreateWorker, At, optionVars
<1>2. n \in Nat /\ mpipe.num_workers = config["num_workers"] /\ mpipe.num_workers \in Nat
  BY <1>1 DEF SettledInv, Counts
<1>3. config = Advanced(config, 0)
  BY NothingAdvanced DEF OptionsInv
<1>4. Len(made) = n /\ Len(generator) = n
  BY <1>1 DEF WorkersInv
<1>5. /\ made' \in Seq(Seq(Sendable(config))) /\ Len(made') = n + 1
      /\ \A w \in 1 .. n : made'[w] = made[w]
      /\ made'[n + 1] = <<>>
  <2>1. made \in Seq(Seq(Sendable(config))) /\ <<>> \in Seq(Sendable(config))
    BY DEF WorkersInv
  <2> QED
    BY <1>1, <1>2, <1>4, <2>1
<1>6. /\ generator' \in Seq({Advanced(config, k) : k \in Nat})
      /\ Len(generator') = n + 1
      /\ \A w \in 1 .. n : generator'[w] = generator[w]
      /\ generator'[n + 1] = config
  <2>1. /\ generator \in Seq({Advanced(config, k) : k \in Nat})
        /\ config \in {Advanced(config, k) : k \in Nat}
    BY <1>3 DEF WorkersInv
  <2> QED
    BY <1>1, <1>2, <1>4, <2>1
<1>7. ASSUME NEW w \in 1 .. n + 1
      PROVE  /\ generator'[w] = Advanced(config, Len(made'[w]))
             /\ made'[w] # <<>> => PayloadBytes(config) >= 0
             /\ \A k \in 1 .. Len(made'[w]) : IsSent(config, w, k, made'[w][k])
  <2>1. CASE w \in 1 .. n
    BY <1>4, <1>5, <1>6, <2>1 DEF WorkersInv
  <2>2. CASE w = n + 1
    <3>1. made'[w] = <<>> /\ Len(made'[w]) = 0 /\ generator'[w] = config
      BY <1>5, <1>6, <2>2
    <3> QED
      BY <1>3, <3>1
  <2> QED
    BY <1>2, <2>1, <2>2
<1>8. n + 1 <= mpipe.num_workers
  BY <1>1, <1>2
<1>9. /\ \A k : (Advanced(config, k))' = Advanced(config, k)
      /\ (Sendable(config))' = Sendable(config)
      /\ (PayloadBytes(config))' = PayloadBytes(config)
      /\ \A w, k, p : (IsSent(config, w, k, p))' <=> IsSent(config, w, k, p)
  BY <1>1 DEF Advanced, Sendable, PayloadBytes, IsSent, PayloadOf
<1> QED
  BY <1>1, <1>5, <1>6, <1>7, <1>8, <1>9 DEF WorkersInv

LEMMA MakeKeeps ==
  ASSUME OptionsInv, SettledInv, WorkersInv, NEW w \in DOMAIN made, MakePacket(w)
  PROVE  WorkersInv'
<1> DEFINE c == generator[w]
           m == Len(made[w])
<1>1. /\ stage = "ready" /\ UNCHANGED <<stage, n, mpipe, config>>
      /\ PayloadBytes(c) >= 0
      /\ generator' = [generator EXCEPT ![w] = AfterPacket(@)]
  BY DEF MakePacket, MayMake, At, optionVars, initVars
<1>2. PICK old \in OldHeaders, payload \in PayloadOf(c) :
        made' = [made EXCEPT ![w] =
                   Append(@, Addressed(generator_udp_packet(c, old, payload),
                                       (generator_udp_packet(c, old, payload).h_dest
                                          + w - 1) % 256))]
  BY DEF MakePacket, Addressed
<1>3. /\ made \in Seq(Seq(Sendable(config))) /\ w \in 1 .. Len(made)
      /\ generator \in Seq({Advanced(config, k) : k \in Nat})
      /\ Len(generator) = Len(made)
      /\ made[w] \in Seq(Sendable(config)) /\ m \in Nat
  BY DEF WorkersInv
<1>4. ConfigOK(config)
  BY DEF OptionsInv
<1>5. c = Advanced(config, m)
  BY <1>3 DEF WorkersInv
<1>6. /\ c["dstmac"] = config["dstmac"] /\ c["pktlen"] = config["pktlen"]
      /\ c["protocol"] = config["protocol"] /\ config["dstmac"] \in Nat
  BY <1>4, <1>5 DEF Advanced, Settings, Plain, Ranges, ConfigOK
<1>7. PayloadOf(c) = PayloadOf(config) /\ PayloadBytes(c) = PayloadBytes(config)
  BY <1>6 DEF PayloadOf, PayloadBytes
<1>8. PICK p : p = Addressed(generator_udp_packet(c, old, payload),
                             (config["dstmac"] + w - 1) % 256)
  OBVIOUS
<1>9. made' = [made EXCEPT ![w] = Append(made[w], p)]
  <2>1. generator_udp_packet(c, old, payload).h_dest = config["dstmac"]
    BY <1>6, PacketFields
  <2> HIDE DEF c
  <2> QED
    BY <1>2, <1>8, <2>1
<1>10. IsSent(config, w, m + 1, p)
  <2>1. (m + 1) - 1 = m
    BY <1>3
  <2> HIDE DEF c, m
  <2> QED
    BY <1>5, <1>7, <1>8, <2>1 DEF IsSent
<1>11. p \in Sendable(config)
  <2>1. (config["dstmac"] + w - 1) % 256 \in Int
    BY <1>3, <1>6
  <2> HIDE DEF c, m
  <2> QED
    BY <1>3, <1>5, <1>7, <1>8, <2>1 DEF Sendable
<1> HIDE DEF c
<1>12. Append(made[w], p) \in Seq(Sendable(config))
  BY <1>3, <1>11
<1>13. /\ made' \in Seq(Seq(Sendable(config))) /\ Len(made') = Len(made)
       /\ made'[w] = Append(made[w], p)
       /\ \A v \in 1 .. Len(made) : v # w => made'[v] = made[v]
  BY <1>3, <1>9, <1>12
<1>14. AfterPacket(c) = Advanced(config, m + 1)
  BY <1>3, <1>4, <1>5, PacketAdvances
<1>15. generator' = [generator EXCEPT ![w] = Advanced(config, m + 1)]
  BY <1>1, <1>14 DEF c
<1>16. /\ generator' \in Seq({Advanced(config, k) : k \in Nat})
       /\ Len(generator') = Len(made)
       /\ generator'[w] = Advanced(config, m + 1)
       /\ \A v \in 1 .. Len(made) : v # w => generator'[v] = generator[v]
  <2>1. m + 1 \in Nat
    BY <1>3
  <2> HIDE DEF m
  <2>2. Advanced(config, m + 1) \in {Advanced(config, k) : k \in Nat}
    BY <2>1
  <2>3. PICK G : G = {Advanced(config, k) : k \in Nat}
    OBVIOUS
  <2> QED
    BY <1>3, <1>15, <2>2, <2>3
<1>17. ASSUME NEW v \in 1 .. Len(made)
       PROVE  /\ generator'[v] = Advanced(config, Len(made'[v]))
              /\ made'[v] # <<>> => PayloadBytes(config) >= 0
              /\ \A k \in 1 .. Len(made'[v]) : IsSent(config, v, k, made'[v][k])
  <2>1. CASE v = w
    <3>1. /\ Len(made'[w]) = m + 1 /\ made'[w][m + 1] = p
          /\ \A k \in 1 .. m : made'[w][k] = made[w][k]
      BY <1>3, <1>11, <1>13
    <3>2. ASSUME NEW k \in 1 .. m + 1
          PROVE  IsSent(config, w, k, made'[w][k])
      <4>1. CASE k = m + 1
        BY <1>10, <3>1, <4>1
      <4>2. CASE k \in 1 .. m
        BY <1>3, <3>1, <4>2 DEF WorkersInv
      <4> QED
        BY <1>3, <4>1, <4>2
    <3> QED
      BY <1>1, <1>7, <1>16, <2>1, <3>1, <3>2
  <2>2. CASE v # w
    BY <1>13, <1>16, <2>2 DEF WorkersInv
  <2> QED
    BY <2>1, <2>2
<1>18. /\ \A k : (Advanced(config, k))' = Advanced(config, k)
       /\ (Sendable(config))' = Sendable(config)
       /\ (PayloadBytes(config))' = PayloadBytes(config)
       /\ \A v, k, x : (IsSent(config, v, k, x))' <=> IsSent(config, v, k, x)
  BY <1>1 DEF Advanced, Sendable, PayloadBytes, IsSent, PayloadOf
<1>19. Len(made) = n /\ n <= mpipe.num_workers
  BY <1>1 DEF WorkersInv
<1> QED
  BY <1>1, <1>13, <1>16, <1>17, <1>18, <1>19 DEF WorkersInv

LEMMA WorkersNext ==
  ASSUME OptionsInv, SettledInv, WorkersInv, [Next]_vars
  PROVE  WorkersInv'
<1>0. SettledInv'
  BY SettledNext
<1>1. CASE MutualOptionsNext /\ UNCHANGED <<initVars, generator, made>>
  <2>1. stage = "config"
    BY <1>1 DEF MutualOptionsNext, Scan, Open, ReadLine, GiveUp, EndOfFile, Option,
                print_config_file, OptionsDone, SettledInv
  <2> QED
    BY <1>0, <1>1, <2>1, NoWorkers DEF initVars
<1>2. CASE MpipeInitNext /\ UNCHANGED <<generator, made>>
  <2>1. \/ stage # "ready" /\ (stage' = "ready" => n' = 0)
        \/ UNCHANGED <<stage, n, mpipe, config>>
    BY <1>2 DEF MpipeInitNext, CopyConfig, Crash, Die, CheckCpus, StartDriver,
                OpenReceiver, OpenSender, AllocRings, InitIqueue, IqueuesDone,
                AllocGroups, AllocBuckets, InitEqueue, AllocStack, create_stack,
                AddRule, RulesDone, Commit, initVars, At, Succeeds, Then
  <2>2. CASE stage # "ready" /\ (stage' = "ready" => n' = 0)
    BY <1>0, <1>2, <2>2, NoWorkers
  <2>3. CASE UNCHANGED <<stage, n, mpipe, config>>
    BY <1>2, <2>3, WorkersStay
  <2> QED
    BY <2>1, <2>2, <2>3
<1>3. CASE CreateWorker
  BY <1>3, CreateKeeps
<1>4. ASSUME NEW w \in DOMAIN made, MakePacket(w)
      PROVE  WorkersInv'
  BY <1>4, MakeKeeps
<1>5. ASSUME NEW w \in DOMAIN made, Overwrite(w)
      PROVE  WorkersInv'
  BY <1>5, WorkersStay DEF Overwrite, initVars
<1>6. CASE UNCHANGED vars
  BY <1>6, WorkersStay DEF vars, initVars, optionVars
<1> QED
  BY <1>1, <1>2, <1>3, <1>4, <1>5, <1>6, NextCases

(***************************************************************************)
(* The frames come back: the chip was told the address that the workers     *)
(* send to.                                                                *)
(***************************************************************************)

DmacInv ==
  ~ complained /\ (pc \in {"options", "generator"} \/ stage # "config") =>
    config["dmac"] = config["dstmac"]

LEMMA DmacInit == Init => DmacInv
BY DEF Init, MutualOptionsInit, MpipeInitInit, DmacInv

LEMMA NoOptionForDmac ==
  \A o \in DOMAIN OptionField : OptionField[o] \notin {"dmac", "dstmac"}
BY DEF OptionField

LEMMA OtherOptions ==
  {"--config", "--second", "--version"} \cap DOMAIN OptionField = {}
BY DEF OptionField

LEMMA DmacNext ==
  ASSUME OptionsInv, SettledInv, DmacInv, [Next]_vars
  PROVE  DmacInv'
<1>1. CASE MutualOptionsNext /\ UNCHANGED <<initVars, generator, made>>
  <2>0. stage = "config" /\ stage' = stage
    BY <1>1 DEF MutualOptionsNext, Scan, Open, ReadLine, GiveUp, EndOfFile, Option,
                print_config_file, OptionsDone, SettledInv, initVars
  <2>1. CASE Scan \/ Open \/ ReadLine \/ GiveUp
    BY <2>0, <2>1 DEF Scan, Open, ReadLine, GiveUp, End, DmacInv
  <2>2. CASE EndOfFile
    <3>1. /\ config = [f \in Settings |-> config[f]]
          /\ config' = [config EXCEPT !["dmac"] = config["dstmac"]]
      BY <2>2 DEF EndOfFile, OptionsInv, ConfigOK
    <3>2. "dmac" \in Settings /\ "dstmac" \in Settings
      BY DEF Settings, Plain
    <3>3. config'["dmac"] = config'["dstmac"]
      BY <3>1, <3>2
    <3> QED
      BY <3>3 DEF DmacInv
  <2>3. CASE Option
    <3>1. pc = "options" /\ complained' = complained
      BY <2>3 DEF Option
    <3>2. config'["dmac"] = config["dmac"] /\ config'["dstmac"] = config["dstmac"]
      <4>1. CASE argv[i] \in DOMAIN OptionField /\ HasValue
        <5>1. config' = [config EXCEPT ![OptionField[argv[i]]] =
                           ValueOf(OptionField[argv[i]], argv[i + 1])]
          BY <2>3, <4>1, OtherOptions DEF Option
        <5>2. config = [f \in Settings |-> config[f]]
          BY DEF OptionsInv, ConfigOK
        <5>3. "dmac" \in Settings /\ "dstmac" \in Settings
          BY DEF Settings, Plain
        <5>4. OptionField[argv[i]] \notin {"dmac", "dstmac"}
          BY <4>1, NoOptionForDmac
        <5> QED
          BY <5>1, <5>2, <5>3, <5>4
      <4>2. CASE ~ (argv[i] \in DOMAIN OptionField /\ HasValue)
        BY <2>3, <4>2 DEF Option
      <4> QED
        BY <4>1, <4>2
    <3> QED
      BY <3>1, <3>2, <2>0 DEF DmacInv
  <2>4. CASE print_config_file \/ OptionsDone
    BY <2>0, <2>4 DEF print_config_file, OptionsDone, End, DmacInv
  <2> QED
    BY <1>1, <2>1, <2>2, <2>3, <2>4 DEF MutualOptionsNext
<1>2. CASE MpipeInitNext /\ UNCHANGED <<generator, made>>
  <2>1. UNCHANGED <<config, complained>>
    BY <1>2, ChipQuiet DEF Quiet, Ends, optionVars
  <2>2. pc = "generator"
    BY <1>2 DEF MpipeInitNext, CopyConfig, Crash, Die, CheckCpus, StartDriver,
                OpenReceiver, OpenSender, AllocRings, InitIqueue, IqueuesDone,
                AllocGroups, AllocBuckets, InitEqueue, AllocStack, create_stack,
                AddRule, RulesDone, Commit, At, Succeeds
  <2> QED
    BY <2>1, <2>2 DEF DmacInv
<1>3. CASE CreateWorker
  BY <1>3 DEF CreateWorker, At, DmacInv, optionVars
<1>4. ASSUME NEW w \in DOMAIN made, MakePacket(w)
      PROVE  DmacInv'
  BY <1>4 DEF MakePacket, DmacInv, optionVars, initVars
<1>5. ASSUME NEW w \in DOMAIN made, Overwrite(w)
      PROVE  DmacInv'
  BY <1>5 DEF Overwrite, MayMake, At, DmacInv, initVars
<1>6. CASE UNCHANGED vars
  BY <1>6 DEF vars, initVars, optionVars, DmacInv
<1> QED
  BY <1>1, <1>2, <1>3, <1>4, <1>5, <1>6, NextCases

\* A packet made by worker w is for worker w.
LEMMA FrameAddressed ==
  ASSUME OptionsInv, SettledInv, WorkersInv,
         NEW w \in 1 .. Len(made), NEW k \in 1 .. Len(made[w])
  PROVE  /\ stage = "ready" /\ w \in 1 .. mpipe.num_workers
         /\ made[w][k].h_dest = (config["dstmac"] + w - 1) % 256
<1>1. Len(made) > 0
  OBVIOUS
<1>2. stage = "ready" /\ Len(made) <= mpipe.num_workers
  BY <1>1 DEF WorkersInv
<1>3. mpipe.num_workers \in Nat /\ Len(made) \in Nat
  BY DEF SettledInv, Counts, WorkersInv
<1>4. IsSent(config, w, k, made[w][k])
  BY DEF WorkersInv
<1>5. PICK old \in OldHeaders, payload \in PayloadOf(config) :
        made[w][k] = Addressed(generator_udp_packet(Advanced(config, k - 1), old, payload),
                               (config["dstmac"] + w - 1) % 256)
  BY <1>4 DEF IsSent
<1>6. made[w][k].h_dest = (config["dstmac"] + w - 1) % 256
  BY <1>5, PacketFields
<1> QED
  BY <1>2, <1>3, <1>6

LEMMA FramesReach ==
  ASSUME OptionsInv, SettledInv, ChipInv, WorkersInv, DmacInv
  PROVE  FramesReachOwnRing
<1> SUFFICES ASSUME ~ complained, ~ chip.refused,
                    NEW w \in DOMAIN made, NEW k \in DOMAIN made[w]
             PROVE  /\ RingsFor(made[w][k].h_dest) = {mpipe.ring + w - 1}
                    /\ mpipe.ring + w - 1 \in chip.iqueues
  BY DEF FramesReachOwnRing
<1>1. w \in 1 .. Len(made) /\ k \in 1 .. Len(made[w])
  BY DEF WorkersInv
<1>2. /\ stage = "ready" /\ w \in 1 .. mpipe.num_workers
      /\ made[w][k].h_dest = (config["dstmac"] + w - 1) % 256
  BY <1>1, FrameAddressed
<1>3. mpipe.dmac = config["dstmac"]
  BY <1>2 DEF DmacInv, SettledInv, Counts
<1>4. mpipe.dmac \in Nat /\ w \in Nat
  BY <1>2 DEF SettledInv, Counts
<1>5. made[w][k].h_dest = (mpipe.dmac + (w - 1)) % 256
  <2>1. config["dstmac"] + w - 1 = mpipe.dmac + (w - 1)
    BY <1>3, <1>4
  <2> QED
    BY <1>2, <2>1
<1> QED
  BY <1>2, <1>5, OwnRing

(***************************************************************************)
(* The headers.                                                            *)
(***************************************************************************)

LEMMA SweptRange ==
  ASSUME NEW c, ConfigOK(c), NEW f \in Ranges, NEW k \in Nat, k > 0
  PROVE  /\ GET_NEXT(Advanced(c, k - 1)[f]).cur = Swept(c, f, k)
         /\ Swept(c, f, k) \in Nat
<1>1. k - 1 \in Nat /\ (k - 1) + 1 = k
  OBVIOUS
<1>2. /\ c[f] \in [{"min", "cur", "max"} -> 0 .. Uint32 - 1] /\ c[f].cur = c[f].min
      /\ f \in Settings
  BY FieldsDisjoint DEF ConfigOK
<1>3. PICK j \in Nat : j = k - 1 /\ j + 1 = k
  BY <1>1
<1>4. Advanced(c, j)[f] = After(c[f], j)
  BY <1>2 DEF Advanced
<1>5. GET_NEXT(After(c[f], j)) = After(c[f], k)
  BY <1>2, <1>3, RangeAdvances
<1>6. After(c[f], k).cur = Swept(c, f, k)
  BY <1>2 DEF After, Swept
<1>7. Swept(c, f, k) \in Nat
  <2>1. PICK U \in Nat \ {0}, lo \in Nat, hi \in Nat :
          U = Uint32 /\ lo = c[f].min /\ hi = c[f].max
    <3>1. Uint32 \in Nat \ {0}
      BY InputAssumption
    <3>2. c[f].min \in 0 .. Uint32 - 1 /\ c[f].max \in 0 .. Uint32 - 1
      BY <1>2
    <3>3. c[f].min \in Nat /\ c[f].max \in Nat
      BY <3>1, <3>2
    <3> QED
      BY <3>1, <3>3
  <2>2. PICK size \in Nat \ {0} : size = RangeSize(c[f])
    <3>1. PICK e \in Nat : e = (hi + U - lo) % U
      <4>1. lo <= U - 1
        BY <1>2, <2>1
      <4>2. (hi + U - lo) % U \in Nat
        BY <2>1, <4>1
      <4> QED
        BY <4>2
    <3>2. RangeSize(c[f]) = 1 + e
      BY <2>1, <3>1 DEF RangeSize
    <3> QED
      BY <3>1, <3>2
  <2>3. k % size \in Nat
    BY <2>2
  <2>4. Swept(c, f, k) = (lo + (k % size)) % U
    BY <2>1, <2>2 DEF Swept
  <2> QED
    BY <2>1, <2>3, <2>4
<1> QED
  BY <1>3, <1>4, <1>5, <1>6, <1>7

LEMMA HeadersVerify ==
  ASSUME OptionsInv, WorkersInv
  PROVE  HeadersRight
<1> SUFFICES ASSUME NEW w \in DOMAIN made, NEW k \in DOMAIN made[w]
             PROVE  /\ made[w][k].saddr = Swept(config, "saddr", k)
                    /\ made[w][k].daddr = Swept(config, "daddr", k)
                    /\ made[w][k].source = Swept(config, "sport", k) % 65536
                    /\ made[w][k].dest = Swept(config, "dport", k) % 65536
                    /\ made[w][k].old.check = 0 => IpVerifies(made[w][k])
  BY SMT DEF HeadersRight
<1>1. /\ w \in 1 .. Len(made) /\ k \in 1 .. Len(made[w]) /\ k \in Nat /\ k > 0
      /\ made[w] # <<>>
  BY DEF WorkersInv
<1>2. PICK p : p = made[w][k]
  OBVIOUS
<1>3. IsSent(config, w, k, p) /\ PayloadBytes(config) >= 0
  BY <1>1, <1>2 DEF WorkersInv
<1>4. PICK c : c = Advanced(config, k - 1)
  OBVIOUS
<1>e. PICK octet : octet = (config["dstmac"] + w - 1) % 256
  OBVIOUS
<1>5. PICK old \in OldHeaders, payload \in PayloadOf(config) :
        p = Addressed(generator_udp_packet(c, old, payload), octet)
  BY <1>3, <1>4, <1>e DEF IsSent
<1>6. PICK b : b = Blank(c, old, payload)
  OBVIOUS
<1>7. ConfigOK(config)
  BY DEF OptionsInv
<1>8. /\ GET_NEXT(c["saddr"]).cur = Swept(config, "saddr", k)
      /\ GET_NEXT(c["daddr"]).cur = Swept(config, "daddr", k)
      /\ GET_NEXT(c["sport"]).cur = Swept(config, "sport", k)
      /\ GET_NEXT(c["dport"]).cur = Swept(config, "dport", k)
      /\ Swept(config, "saddr", k) \in Nat /\ Swept(config, "daddr", k) \in Nat
  BY <1>1, <1>4, <1>7, SweptRange DEF Ranges
<1>9. c["pktlen"] = config["pktlen"] /\ config["pktlen"] \in Nat
  BY <1>4, <1>7 DEF Advanced, Settings, Plain, Ranges, ConfigOK
<1>10. config["pktlen"] - 14 \in Nat
  BY <1>3, <1>9 DEF PayloadBytes
<1>11. /\ p.length = config["pktlen"] /\ p.old = old
       /\ p.source = Swept(config, "sport", k) % 65536
       /\ p.dest = Swept(config, "dport", k) % 65536
       /\ p.saddr = Swept(config, "saddr", k) /\ p.daddr = Swept(config, "daddr", k)
       /\ p.check = Complement(ip_xsum(IpWords(b), 0))
  <2>1. /\ p.length = c["pktlen"] /\ p.old = old
        /\ p.source = GET_NEXT(c["sport"]).cur % 65536
        /\ p.dest = GET_NEXT(c["dport"]).cur % 65536
        /\ p.saddr = GET_NEXT(c["saddr"]).cur /\ p.daddr = GET_NEXT(c["daddr"]).cur
        /\ p.check = Complement(ip_xsum(IpWords(b), 0))
    BY <1>5, <1>6, PacketFields, SMT
  <2> QED
    BY <1>8, <1>9, <2>1, SMT
<1>12. /\ b.old = old /\ b.length = config["pktlen"] /\ b.check = old.check
       /\ b.saddr = Swept(config, "saddr", k) /\ b.daddr = Swept(config, "daddr", k)
  BY <1>6, <1>8, <1>9 DEF Blank
<1>13. old.tos \in Nat /\ old.id \in Nat /\ old.frag_off \in Nat
  <2>1. old \in [tos : Nat, id : Nat, frag_off : Nat, check : Nat]
    BY PacketAssumption
  <2> QED
    BY <2>1
<1>14. ASSUME p.old.check = 0
       PROVE  IpVerifies(p)
  <2>1. b.check = 0
    BY <1>11, <1>12, <1>14, SMT
  <2> QED
    BY <1>8, <1>10, <1>11, <1>12, <1>13, <2>1, IpHeaderVerifies, SMT
<1> QED
  BY <1>2, <1>11, <1>14, SMT

(***************************************************************************)
(* What the settings mean.                                                 *)
(***************************************************************************)

\* The first loop takes every --config it comes to.
Named(k) == k \in 1 .. Len(argv) - 1 /\ argv[k] = "--config"

Chosen(name, j) ==
  \/ name = Default /\ \A k \in 1 .. j - 1 : ~ Named(k)
  \/ \E k \in 1 .. j - 2 : /\ Named(k) /\ name = argv[k + 1]
                           /\ \A l \in k + 2 .. j - 1 : ~ Named(l)

\* The last of the lines s, all for the field, has been obeyed.
Obeyed(field, s) ==
  /\ field \in Plain \cup Names /\ s # {} => config[field] = text[Latest(s)].value
  /\ field \in Ranges /\ s # {} /\ text[Latest(s)].value.got = Full(field) =>
       config[field] = FromTo(text[Latest(s)].value.first, text[Latest(s)].value.plus)

LinesTo(field, r) == {k \in 1 .. r : text[k].field = field}

FileRead(r) ==
  /\ Len(rest) = Len(text) - r
  /\ \A l \in 1 .. Len(rest) : rest[l] = text[r + l]
  /\ \A l \in 1 .. r : text[l].newline /\ ~ BadValue(text[l])
  /\ \A field \in Plain \cup Names \cup Ranges : Obeyed(field, LinesTo(field, r))

\* The second loop stands at every other argument.
ToldTo(field, j) ==
  {k \in 1 .. j - 1 : k % 2 = 1 /\ argv[k] \in DOMAIN OptionField
                                /\ OptionField[argv[k]] = field}

OptionsRead ==
  /\ i % 2 = 1
  /\ \A k \in 1 .. i - 1 :
       k % 2 = 1 => argv[k] \in DOMAIN OptionField \cup {"--config", "--second"}
  /\ \A field \in Plain \cup Names :
       IF ToldTo(field, i) = {} THEN Obeyed(field, LinesFor(field))
       ELSE config[field] = ValueOf(field, argv[Latest(ToldTo(field, i)) + 1])
  /\ \A field \in Ranges : Obeyed(field, LinesFor(field))

SettingsInv ==
  /\ pc = "scan" => Chosen(config_file, i)
  /\ pc \in {"file", "options", "generator"} =>
       \E name \in DOMAIN Files : text = Files[name] /\ Chosen(name, Len(argv) + 1)
  /\ pc = "file" => \E r \in 0 .. Len(text) : FileRead(r)
  /\ pc \in {"options", "generator"} => OptionsRead
  /\ pc = "generator" => i = Len(argv) + 1

LEMMA LatestIs ==
  ASSUME NEW s \in SUBSET Nat, NEW m \in s, \A l \in s : l <= m
  PROVE  Latest(s) = m
<1>1. \A k \in s : (\A l \in s : l <= k) => k = m
  OBVIOUS
<1> QED
  BY <1>1 DEF Latest

LEMMA SettingsInit == Init => SettingsInv
<1> SUFFICES ASSUME Init PROVE SettingsInv
  OBVIOUS
<1>1. pc = "scan" /\ i = 1 /\ config_file = Default
  BY DEF Init, MutualOptionsInit
<1>2. Chosen(config_file, i)
  BY <1>1 DEF Chosen
<1> QED
  BY <1>1, <1>2 DEF SettingsInv

\* The first loop.
LEMMA ScanKeeps ==
  ASSUME OptionsInv, SettingsInv, Scan
  PROVE  SettingsInv'
<1>1. /\ pc = "scan" /\ pc' = "scan" /\ argv' = argv /\ i <= Len(argv)
      /\ i \in 1 .. Len(argv) + 1 /\ Len(argv) \in Nat /\ i \in Nat /\ i > 0
      /\ Chosen(config_file, i)
  BY DEF Scan, SettingsInv, OptionsInv
<1>2. \A k : (Named(k))' <=> Named(k)
  BY <1>1 DEF Named
<1>3. CASE argv[i] = "--config" /\ HasValue
  <2>1. config_file' = argv[i + 1] /\ i' = i + 2
    BY <1>3 DEF Scan, ScanConfig
  <2>2. Named(i)
    BY <1>1, <1>3 DEF Named, HasValue
  <2>3. /\ i \in 1 .. i' - 2 /\ Named(i) /\ config_file' = argv[i + 1]
        /\ \A l \in i + 2 .. i' - 1 : ~ Named(l)
    BY <1>1, <2>1, <2>2
  <2>4. Chosen(config_file, i)'
    BY <1>1, <1>2, <2>3 DEF Chosen
  <2> QED
    BY <1>1, <2>4 DEF SettingsInv
<1>4. CASE ~ (argv[i] = "--config" /\ HasValue)
  <2>1. config_file' = config_file /\ i' = i + 1
    BY <1>4 DEF Scan
  <2>2. ~ Named(i)
    BY <1>1, <1>4 DEF Named, HasValue
  <2>3. CASE config_file = Default /\ \A k \in 1 .. i - 1 : ~ Named(k)
    <3>1. \A k \in 1 .. i' - 1 : ~ Named(k)
      BY <1>1, <2>1, <2>2, <2>3
    <3>2. Chosen(config_file, i)'
      BY <1>1, <1>2, <2>1, <2>3, <3>1 DEF Chosen
    <3> QED
      BY <1>1, <3>2 DEF SettingsInv
  <2>4. CASE \E k \in 1 .. i - 2 : /\ Named(k) /\ config_file = argv[k + 1]
                                   /\ \A l \in k + 2 .. i - 1 : ~ Named(l)
    <3>1. PICK k \in 1 .. i - 2 : /\ Named(k) /\ config_file = argv[k + 1]
                                  /\ \A l \in k + 2 .. i - 1 : ~ Named(l)
      BY <2>4
    <3>2. k \in 1 .. i' - 2 /\ \A l \in k + 2 .. i' - 1 : ~ Named(l)
      BY <1>1, <2>1, <2>2, <3>1
    <3>3. Chosen(config_file, i)'
      BY <1>1, <1>2, <2>1, <3>1, <3>2 DEF Chosen
    <3> QED
      BY <1>1, <3>3 DEF SettingsInv
  <2> QED
    BY <1>1, <2>3, <2>4 DEF Chosen
<1> QED
  BY <1>3, <1>4

LEMMA OpenKeeps ==
  ASSUME OptionsInv, SettingsInv, Open
  PROVE  SettingsInv'
<1>1. CASE config_file \notin DOMAIN Files
  BY <1>1 DEF Open, End, SettingsInv
<1>2. CASE config_file \in DOMAIN Files
  <2>1. /\ pc = "scan" /\ pc' = "file" /\ rest' = Files[config_file] /\ text' = rest'
        /\ UNCHANGED <<argv, i, config>>
    BY <1>2 DEF Open
  <2>2. i = Len(argv) + 1 /\ Chosen(config_file, i)
    BY <2>1 DEF Open, OptionsInv, SettingsInv
  <2>3. (Chosen(config_file, i))' <=> Chosen(config_file', i)
    BY <2>1 DEF Chosen, Named
  <2>4. \E name \in DOMAIN Files : text' = Files[name] /\ Chosen(name, Len(argv) + 1)'
    <3>1. \A name : Chosen(name, Len(argv) + 1)' <=> Chosen(name, Len(argv) + 1)
      BY <2>1 DEF Chosen, Named
    <3> QED
      BY <1>2, <2>1, <2>2, <3>1
  <2>5. text' \in Seq(Lines) /\ rest' = text'
    BY <1>2, <2>1, InputAssumption
  <2>6. FileRead(0)'
    <3>1. \A field : LinesTo(field, 0)' = {}
      BY DEF LinesTo
    <3>2. \A field : Obeyed(field, LinesTo(field, 0))'
      BY <3>1, Zenon DEF Obeyed
    <3>3. Len(rest') = Len(text') - 0 /\ \A l \in 1 .. Len(rest') : rest'[l] = text'[0 + l]
      BY <2>5
    <3>4. \A l \in 1 .. 0 : text'[l].newline /\ ~ BadValue(text'[l])
      OBVIOUS
    <3> QED
      BY <3>2, <3>3, <3>4 DEF FileRead
  <2>7. 0 \in 0 .. Len(text')
    BY <2>5
  <2> QED
    BY <2>1, <2>4, <2>6, <2>7 DEF SettingsInv
<1> QED
  BY <1>1, <1>2

\* What the file phase knows of the file.
LEMMA FileKnown ==
  ASSUME SettingsInv, pc \in {"file", "options", "generator"}
  PROVE  /\ text \in Seq(Lines) /\ Len(text) \in Nat
         /\ \A k \in 1 .. Len(text) - 1 : text[k].newline
<1>1. PICK name \in DOMAIN Files : text = Files[name]
  BY DEF SettingsInv
<1> QED
  BY <1>1, InputAssumption

LEMMA AssignSays ==
  ASSUME NEW line \in Lines, ConfigOK(config), Assign(line)
  PROVE  /\ line.field \in Plain \cup Names => config'[line.field] = line.value
         /\ line.field \in Ranges /\ line.value.got = Full(line.field) =>
              config'[line.field] = FromTo(line.value.first, line.value.plus)
         /\ \A field \in Settings : field # line.field => config'[field] = config[field]
<1>0. config = [f \in Settings |-> config[f]]
  BY DEF ConfigOK
<1>1. CASE line.field \in Ranges
  <2>1. PICK first \in First(line), counter \in Counter(line) :
          config' = [config EXCEPT ![line.field] = FromTo(first, counter)]
    BY <1>1, FieldsDisjoint DEF Assign
  <2>2. PICK v : v = FromTo(first, counter)
    OBVIOUS
  <2>3. /\ config'[line.field] = v
        /\ \A field \in Settings : field # line.field => config'[field] = config[field]
    BY <1>0, <1>1, <2>1, <2>2, FieldsDisjoint
  <2>4. ASSUME line.value.got = Full(line.field)
        PROVE  first = line.value.first /\ counter = line.value.plus
    <3>1. line.value.got # 0
      BY <2>4 DEF Full
    <3>2. First(line) = {line.value.first}
      BY <3>1 DEF First
    <3>3. Counter(line) = {line.value.plus}
      BY <2>4 DEF Counter, Full
    <3> QED
      BY <3>2, <3>3
  <2>5. line.field \notin Plain \cup Names
    BY <1>1, FieldsDisjoint DEF Pointers
  <2> QED
    BY <2>2, <2>3, <2>4, <2>5
<1>2. CASE line.field \in Plain \cup Pointers
  <2>1. config' = [config EXCEPT ![line.field] = line.value]
    BY <1>2, FieldsDisjoint DEF Assign
  <2>2. line.field \in Settings /\ line.field \notin Ranges
    BY <1>2, FieldsDisjoint
  <2> QED
    BY <1>0, <2>1, <2>2
<1>3. CASE line.field \notin Ranges \cup Plain \cup Pointers
  <2>1. config' = config
    BY <1>3 DEF Assign
  <2> QED
    BY <1>3, <2>1 DEF Pointers
<1> QED
  BY <1>1, <1>2, <1>3

\* One more line is read.
LEMMA LineObeyed ==
  ASSUME OptionsInv, SettingsInv, ReadLine, NEW r \in 0 .. Len(text), FileRead(r)
  PROVE  /\ r + 1 \in 0 .. Len(text)
         /\ FileRead(r + 1)'
<1>1. /\ pc = "file" /\ text' = text /\ rest' = Tail(rest) /\ Assign(Head(rest))
      /\ ~ AtEnd /\ ~ BadValue(Head(rest))
  BY DEF ReadLine
<1>2. /\ text \in Seq(Lines) /\ Len(text) \in Nat /\ rest \in Seq(Lines) /\ r \in Nat
  BY <1>1, FileKnown DEF OptionsInv
<1>3. rest # <<>> /\ Head(rest).newline
  BY <1>1 DEF AtEnd
<1>4. Len(rest) = Len(text) - r /\ \A l \in 1 .. Len(rest) : rest[l] = text[r + l]
  BY DEF FileRead
<1>5. Len(rest) >= 1 /\ Head(rest) = rest[1]
  BY <1>2, <1>3
<1>6. r + 1 \in 0 .. Len(text) /\ r + 1 \in 1 .. Len(text)
  BY <1>2, <1>4, <1>5
<1>7. Head(rest) = text[r + 1] /\ text[r + 1] \in Lines
  BY <1>2, <1>4, <1>5, <1>6
<1>8. /\ Len(rest') = Len(text') - (r + 1)
      /\ \A l \in 1 .. Len(rest') : rest'[l] = text'[(r + 1) + l]
  <2>1. Len(rest') = Len(rest) - 1 /\ \A l \in 1 .. Len(rest) - 1 : rest'[l] = rest[l + 1]
    BY <1>1, <1>2, <1>3
  <2>2. ASSUME NEW l \in 1 .. Len(rest) - 1
        PROVE  rest'[l] = text[(r + 1) + l]
    <3>1. l + 1 \in 1 .. Len(rest) /\ r + (l + 1) = (r + 1) + l
      BY <1>2
    <3> QED
      BY <1>4, <2>1, <3>1
  <2>3. Len(rest') = Len(text) - (r + 1)
    BY <1>2, <1>4, <2>1
  <2> QED
    BY <1>1, <2>1, <2>2, <2>3
<1>9. \A l \in 1 .. r + 1 : text[l].newline /\ ~ BadValue(text[l])
  <2>1. \A l \in 1 .. r : text[l].newline /\ ~ BadValue(text[l])
    BY DEF FileRead
  <2>2. text[r + 1].newline /\ ~ BadValue(text[r + 1])
    BY <1>1, <1>3, <1>7
  <2>3. \A l \in 1 .. r + 1 : l = r + 1 \/ l \in 1 .. r
    BY <1>2
  <2> QED
    BY <2>1, <2>2, <2>3, Zenon
<1>10. ASSUME NEW field \in Plain \cup Names \cup Ranges
       PROVE  Obeyed(field, LinesTo(field, r + 1))'
  <2>0. /\ field \in Settings
        /\ (LinesTo(field, r + 1))' = LinesTo(field, r + 1)
        /\ Obeyed(field, LinesTo(field, r))
    BY <1>1 DEF LinesTo, FileRead, Settings, Pointers
  <2>a. \A s : Latest(s)' = Latest(s)
    OBVIOUS
  <2>b. /\ text[r + 1].field \in Plain \cup Names =>
             config'[text[r + 1].field] = text[r + 1].value
        /\ text[r + 1].field \in Ranges
             /\ text[r + 1].value.got = Full(text[r + 1].field) =>
             config'[text[r + 1].field]
               = FromTo(text[r + 1].value.first, text[r + 1].value.plus)
        /\ \A f \in Settings : f # text[r + 1].field => config'[f] = config[f]
    BY <1>1, <1>7, AssignSays DEF OptionsInv
  <2>1. CASE text[r + 1].field = field
    <3>1. /\ LinesTo(field, r + 1) \in SUBSET Nat /\ r + 1 \in LinesTo(field, r + 1)
          /\ \A l \in LinesTo(field, r + 1) : l <= r + 1
      BY <1>2, <2>1 DEF LinesTo
    <3>2. Latest(LinesTo(field, r + 1)) = r + 1
      BY <3>1, LatestIs
    <3>3. PICK s : s = LinesTo(field, r + 1)
      OBVIOUS
    <3> QED
      BY <1>1, <2>0, <2>1, <2>b, <3>2, <3>3 DEF Obeyed
  <2>2. CASE text[r + 1].field # field
    <3>1. LinesTo(field, r + 1) = LinesTo(field, r)
      <4>1. \A k \in 1 .. r + 1 : k = r + 1 \/ k \in 1 .. r
        BY <1>2
      <4>2. \A k \in 1 .. r : k \in 1 .. r + 1
        BY <1>2
      <4> QED
        BY <2>2, <4>1, <4>2, Zenon DEF LinesTo
    <3>2. config'[field] = config[field]
      BY <2>0, <2>2, <2>b
    <3>3. PICK s : s = LinesTo(field, r)
      OBVIOUS
    <3> QED
      BY <1>1, <2>0, <3>1, <3>2, <3>3 DEF Obeyed
  <2> QED
    BY <2>1, <2>2
<1>11. (\A l \in 1 .. r + 1 : text[l].newline /\ ~ BadValue(text[l]))'
  BY <1>1, <1>9 DEF BadValue
<1> QED
  BY <1>6, <1>8, <1>10, <1>11 DEF FileRead

LEMMA ReadKeeps ==
  ASSUME OptionsInv, SettingsInv, ReadLine
  PROVE  SettingsInv'
<1>1. pc = "file" /\ UNCHANGED <<argv, i, config_file, text>>
  BY DEF ReadLine
<1>2. PICK r \in 0 .. Len(text) : FileRead(r)
  BY <1>1 DEF SettingsInv
<1>3. r + 1 \in 0 .. Len(text') /\ FileRead(r + 1)'
  BY <1>1, <1>2, LineObeyed
<1>4. \E name \in DOMAIN Files : text' = Files[name] /\ Chosen(name, Len(argv) + 1)'
  BY <1>1 DEF SettingsInv, Chosen, Named
<1>5. pc' \in {"file", "ended"}
  BY <1>1 DEF ReadLine, End
<1>6. \E q \in 0 .. Len(text') : FileRead(q)'
  BY <1>3
<1> QED
  BY <1>4, <1>5, <1>6 DEF SettingsInv

\* Where the program stops reading, the lines that count end.
LEMMA FileEnds ==
  ASSUME OptionsInv, SettingsInv, pc = "file", NEW r \in 0 .. Len(text), FileRead(r),
         AtEnd \/ BadValue(Head(rest))
  PROVE  \A field : LinesFor(field) = LinesTo(field, r)
<1>1. /\ text \in Seq(Lines) /\ Len(text) \in Nat /\ rest \in Seq(Lines) /\ r \in Nat
      /\ \A k \in 1 .. Len(text) - 1 : text[k].newline
  BY FileKnown DEF OptionsInv
<1>2. /\ Len(rest) = Len(text) - r /\ \A l \in 1 .. Len(rest) : rest[l] = text[r + l]
      /\ \A l \in 1 .. r : text[l].newline /\ ~ BadValue(text[l])
  BY DEF FileRead
<1>3. rest # <<>> => Len(rest) >= 1 /\ r + 1 \in 1 .. Len(text) /\ Head(rest) = text[r + 1]
  BY <1>1, <1>2
<1>4. ASSUME NEW k \in DOMAIN text, LineCounts(k)
      PROVE  k \in 1 .. r
  <2>1. k \in 1 .. Len(text) /\ text[k].newline /\ \A l \in 1 .. k : ~ BadValue(text[l])
    BY <1>1, <1>4 DEF LineCounts
  <2>2. CASE rest = <<>>
    <3>1. r = Len(text)
      BY <1>1, <1>2, <2>2
    <3> QED
      BY <2>1, <3>1
  <2>3. CASE rest # <<>> /\ AtEnd
    <3>1. ~ text[r + 1].newline
      BY <1>3, <2>3 DEF AtEnd
    <3>2. r + 1 = Len(text)
      <4>1. r + 1 \notin 1 .. Len(text) - 1
        BY <1>1, <3>1, Zenon
      <4> QED
        BY <1>1, <1>3, <2>3, <4>1
    <3>3. k # r + 1
      BY <2>1, <3>1
    <3> QED
      BY <1>1, <2>1, <3>2, <3>3
  <2>4. CASE rest # <<>> /\ BadValue(Head(rest))
    <3>1. r + 1 \notin 1 .. k
      BY <1>3, <2>1, <2>4
    <3> QED
      BY <1>1, <2>1, <3>1
  <2> QED
    BY <2>2, <2>3, <2>4
<1>5. ASSUME NEW k \in 1 .. r
      PROVE  k \in DOMAIN text /\ LineCounts(k)
  <2>1. k \in DOMAIN text
    BY <1>1
  <2>2. text[k].newline
    BY <1>2
  <2>3. \A l \in 1 .. k : l \in 1 .. r
    BY <1>1
  <2>4. \A l \in 1 .. k : ~ BadValue(text[l])
    BY <1>2, <2>3, Zenon
  <2> QED
    BY <2>1, <2>2, <2>4 DEF LineCounts
<1> QED
  BY <1>4, <1>5 DEF LinesFor, LinesTo

\* The second loop begins.
LEMMA SecondBegins ==
  ASSUME OptionsInv, SettingsInv, GiveUp \/ EndOfFile
  PROVE  SettingsInv'
<1>1. /\ pc = "file" /\ pc' = "options" /\ i' = 1 /\ UNCHANGED <<argv, config_file, text>>
  BY DEF GiveUp, EndOfFile
<1>2. AtEnd \/ BadValue(Head(rest))
  BY DEF GiveUp, EndOfFile
<1>3. PICK r \in 0 .. Len(text) : FileRead(r)
  BY <1>1 DEF SettingsInv
<1>4. \A field \in Plain \cup Names \cup Ranges : config'[field] = config[field]
  <2>1. CASE GiveUp
    BY <2>1 DEF GiveUp
  <2>2. CASE EndOfFile
    <3>1. config' = [config EXCEPT !["dmac"] = config["dstmac"]]
      BY <2>2 DEF EndOfFile
    <3>2. \A field \in Plain \cup Names \cup Ranges : field # "dmac" /\ field \in Settings
      BY FieldsDisjoint DEF Pointers
    <3>3. config = [f \in Settings |-> config[f]]
      BY DEF OptionsInv, ConfigOK
    <3> QED
      BY <3>1, <3>2, <3>3
  <2> QED
    BY <2>1, <2>2
<1>5. ASSUME NEW field \in Plain \cup Names \cup Ranges
      PROVE  Obeyed(field, LinesFor(field))'
  <2>1. Obeyed(field, LinesFor(field))
    BY <1>1, <1>2, <1>3, FileEnds DEF FileRead
  <2>2. (LinesFor(field))' = LinesFor(field)
    BY <1>1 DEF LinesFor, LineCounts, BadValue
  <2>3. PICK s : s = LinesFor(field)
    OBVIOUS
  <2>4. config'[field] = config[field]
    BY <1>4
  <2> QED
    BY <1>1, <2>1, <2>2, <2>3, <2>4 DEF Obeyed
<1>6. \A field : ToldTo(field, i)' = {}
  BY <1>1 DEF ToldTo
<1>7. OptionsRead'
  <2>1. i' % 2 = 1 /\ \A k \in 1 .. i' - 1 : FALSE
    BY <1>1
  <2>2. \A field \in Plain \cup Names :
          ToldTo(field, i)' = {} /\ Obeyed(field, LinesFor(field))'
    BY <1>5, <1>6
  <2>3. \A field \in Ranges : Obeyed(field, LinesFor(field))'
    BY <1>5
  <2> QED
    BY <2>1, <2>2, <2>3, Zenon DEF OptionsRead
<1>8. \E name \in DOMAIN Files : text' = Files[name] /\ Chosen(name, Len(argv) + 1)'
  BY <1>1 DEF SettingsInv, Chosen, Named
<1> QED
  BY <1>1, <1>7, <1>8 DEF SettingsInv

\* The option at i, and the field it tells, if any.
LEMMA ToldNext ==
  ASSUME NEW field, i \in Nat, i % 2 = 1
  PROVE  ToldTo(field, i + 2) =
           ToldTo(field, i) \cup
             (IF argv[i] \in DOMAIN OptionField /\ OptionField[argv[i]] = field
                THEN {i} ELSE {})
<1>1. (i + 1) % 2 = 0 /\ i > 0
  OBVIOUS
<1>2. \A k : k \in 1 .. (i + 2) - 1 <=> k \in 1 .. i - 1 \/ k = i \/ k = i + 1
  BY <1>1
<1>3. PICK two : two = [k \in Nat |-> k % 2]
  OBVIOUS
<1>4. \A k \in Nat : k % 2 = two[k]
  BY <1>3
<1> QED
  BY <1>1, <1>2 DEF ToldTo

LEMMA OptionKeepsSettings ==
  ASSUME OptionsInv, SettingsInv, Option
  PROVE  SettingsInv'
<1>1. /\ pc = "options" /\ UNCHANGED <<argv, text>> /\ i \in Nat /\ i > 0 /\ i <= Len(argv)
      /\ OptionsRead /\ i % 2 = 1 /\ Len(argv) \in Nat
  BY DEF Option, OptionsInv, SettingsInv, OptionsRead
<1>2. \E name \in DOMAIN Files : text' = Files[name] /\ Chosen(name, Len(argv) + 1)'
  BY <1>1 DEF SettingsInv, Chosen, Named
<1>3. CASE pc' = "ended"
  BY <1>3 DEF SettingsInv
<1>4. CASE pc' # "ended"
  <2>1. /\ argv[i] \in DOMAIN OptionField \cup {"--config", "--second"}
        /\ i' = i + 2 /\ pc' = "options"
    BY <1>1, <1>4 DEF Option, End
  <2>2. /\ argv[i] \in DOMAIN OptionField =>
             config' = [config EXCEPT ![OptionField[argv[i]]] =
                          ValueOf(OptionField[argv[i]], argv[i + 1])]
        /\ argv[i] \notin DOMAIN OptionField => config' = config
    BY <1>4, OtherOptions DEF Option, End
  <2>3. config = [f \in Settings |-> config[f]]
    BY DEF OptionsInv, ConfigOK
  <2>4. \A field : (ToldTo(field, i))' = ToldTo(field, i + 2)
    BY <1>1, <2>1 DEF ToldTo
  <2>5. \A field : (LinesFor(field))' = LinesFor(field)
    BY <1>1 DEF LinesFor, LineCounts, BadValue
  <2>6. ASSUME NEW field \in Plain \cup Names \cup Ranges,
               config'[field] = config[field], Obeyed(field, LinesFor(field))
        PROVE  Obeyed(field, LinesFor(field))'
    <3>1. PICK s : s = LinesFor(field)
      OBVIOUS
    <3> QED
      BY <1>1, <2>5, <2>6, <3>1 DEF Obeyed
  <2>7. ASSUME NEW field \in Plain \cup Names
        PROVE  IF ToldTo(field, i)' = {} THEN Obeyed(field, LinesFor(field))'
               ELSE config'[field]
                      = ValueOf(field, argv'[Latest(ToldTo(field, i)') + 1])
    <3>0. field \in Settings
      BY DEF Settings, Pointers
    <3>1. CASE argv[i] \in DOMAIN OptionField /\ OptionField[argv[i]] = field
      <4>1. PICK s : s = ToldTo(field, i)
        OBVIOUS
      <4>2. ToldTo(field, i)' = s \cup {i}
        BY <1>1, <2>4, <3>1, <4>1, ToldNext
      <4>3. s \cup {i} \in SUBSET Nat /\ i \in s \cup {i} /\ \A l \in s \cup {i} : l <= i
        BY <1>1, <4>1 DEF ToldTo
      <4>4. Latest(s \cup {i}) = i
        BY <4>3, LatestIs
      <4>5. config'[field] = ValueOf(field, argv[i + 1])
        BY <2>2, <2>3, <3>0, <3>1
      <4> QED
        BY <1>1, <4>2, <4>4, <4>5
    <3>2. CASE ~ (argv[i] \in DOMAIN OptionField /\ OptionField[argv[i]] = field)
      <4>1. ToldTo(field, i)' = ToldTo(field, i)
        BY <1>1, <2>4, <3>2, ToldNext
      <4>2. config'[field] = config[field]
        BY <2>2, <2>3, <3>0, <3>2
      <4>3. IF ToldTo(field, i) = {} THEN Obeyed(field, LinesFor(field))
            ELSE config[field] = ValueOf(field, argv[Latest(ToldTo(field, i)) + 1])
        BY <1>1, Zenon DEF OptionsRead
      <4>4. CASE ToldTo(field, i) = {}
        BY <2>6, <4>1, <4>2, <4>3, <4>4
      <4>5. CASE ToldTo(field, i) # {}
        BY <1>1, <4>1, <4>2, <4>3, <4>5
      <4> QED
        BY <4>4, <4>5
    <3> QED
      BY <3>1, <3>2
  <2>8. ASSUME NEW field \in Ranges
        PROVE  Obeyed(field, LinesFor(field))'
    <3>1. field \notin Plain \cup Names /\ field \in Settings
      BY FieldsDisjoint DEF Pointers
    <3>2. config'[field] = config[field]
      BY <2>2, <2>3, <3>1, OptionFields
    <3>3. Obeyed(field, LinesFor(field))
      BY <1>1 DEF OptionsRead
    <3> QED
      BY <2>6, <3>2, <3>3
  <2>9. /\ i' % 2 = 1
        /\ \A k \in 1 .. i' - 1 :
             k % 2 = 1 => argv[k] \in DOMAIN OptionField \cup {"--config", "--second"}
    <3>1. (i + 2) % 2 = 1 /\ (i + 1) % 2 = 0
      BY <1>1
    <3>2. \A k \in 1 .. (i + 2) - 1 : k \in 1 .. i - 1 \/ k = i \/ k = i + 1
      BY <1>1
    <3>3. \A k \in 1 .. i - 1 :
             k % 2 = 1 => argv[k] \in DOMAIN OptionField \cup {"--config", "--second"}
      BY <1>1 DEF OptionsRead
    <3>4. ASSUME NEW k \in 1 .. (i + 2) - 1, k % 2 = 1
          PROVE  argv[k] \in DOMAIN OptionField \cup {"--config", "--second"}
      <4>1. CASE k \in 1 .. i - 1
        BY <3>3, <3>4, <4>1
      <4>2. CASE k = i
        BY <2>1, <4>2
      <4>3. k # i + 1
        BY <3>1, <3>4
      <4> QED
        BY <3>2, <4>1, <4>2, <4>3
    <3> QED
      BY <2>1, <3>1, <3>4
  <2>10. OptionsRead'
    BY <1>1, <2>7, <2>8, <2>9, Zenon DEF OptionsRead
  <2> QED
    BY <1>2, <2>1, <2>10 DEF SettingsInv
<1> QED
  BY <1>3, <1>4

LEMMA SettingsNext ==
  ASSUME OptionsInv, SettingsInv, [Next]_vars
  PROVE  SettingsInv'
<1>1. CASE Ends
  BY <1>1 DEF Ends, SettingsInv
<1>2. ASSUME UNCHANGED <<argv, i, config_file, rest, config, text>>,
             \/ pc' = pc
             \/ pc' = "generator" /\ pc = "options" /\ i = Len(argv) + 1
      PROVE  SettingsInv'
  <2>1. /\ \A name, j : Chosen(name, j)' <=> Chosen(name, j)
        /\ \A r : FileRead(r)' <=> FileRead(r)
    BY <1>2 DEF Chosen, Named, FileRead, Obeyed, LinesTo, BadValue
  <2>2. OptionsRead' <=> OptionsRead
    <3>1. \A field : /\ ToldTo(field, i)' = ToldTo(field, i)
                      /\ LinesFor(field)' = LinesFor(field)
      BY <1>2 DEF ToldTo, LinesFor, LineCounts, BadValue
    <3>2. \A field : Obeyed(field, LinesFor(field))' <=> Obeyed(field, LinesFor(field))
      BY <1>2, <3>1 DEF Obeyed
    <3> QED
      BY <1>2, <3>1, <3>2 DEF OptionsRead
  <2>3. CASE pc' = pc
    BY <1>2, <2>1, <2>2, <2>3 DEF SettingsInv
  <2>4. CASE pc' = "generator" /\ pc = "options" /\ i = Len(argv) + 1
    BY <1>2, <2>1, <2>2, <2>4 DEF SettingsInv
  <2> QED
    BY <1>2, <2>3, <2>4
<1>3. CASE UNCHANGED optionVars
  <2>1. UNCHANGED <<argv, i, config_file, rest, config, text>> /\ pc' = pc
    BY <1>3 DEF optionVars
  <2> QED
    BY <1>2, <2>1
<1>4. CASE OptionsDone
  <2>1. i = Len(argv) + 1
    BY <1>4 DEF OptionsDone, OptionsInv
  <2> QED
    BY <1>2, <1>4, <2>1 DEF OptionsDone
<1>5. CASE print_config_file
  BY <1>5 DEF print_config_file, End, SettingsInv
<1> QED
  BY <1>1, <1>3, <1>4, <1>5, StepCases, ScanKeeps, OpenKeeps, ReadKeeps, SecondBegins,
     OptionKeepsSettings DEF MutualOptionsNext, Quiet

\* The file that the first loop chose is the one that the arguments name.
LEMMA FileMeant ==
  ASSUME OptionsInv, OptionsRead, i = Len(argv) + 1,
         NEW name \in DOMAIN Files, Chosen(name, Len(argv) + 1)
  PROVE  LET configs == {k \in DOMAIN argv : k % 2 = 1 /\ argv[k] = "--config"} IN
           name = IF configs = {} THEN Default ELSE argv[Latest(configs) + 1]
<1> DEFINE configs == {k \in DOMAIN argv : k % 2 = 1 /\ argv[k] = "--config"}
<1>1. /\ Len(argv) \in Nat /\ DOMAIN argv = 1 .. Len(argv)
      /\ (Len(argv) + 1) % 2 = 1
      /\ \A k \in 1 .. Len(argv) :
           k % 2 = 1 => argv[k] \in DOMAIN OptionField \cup {"--config", "--second"}
  BY DEF OptionsInv, OptionsRead
<1>2. ASSUME NEW k \in 1 .. Len(argv), k % 2 = 1
      PROVE  k \in 1 .. Len(argv) - 1
  BY <1>1, <1>2
<1>3. ASSUME NEW k \in configs
      PROVE  Named(k) /\ k % 2 = 1 /\ k \in 1 .. Len(argv) - 1
  BY <1>1, <1>2, <1>3 DEF Named
<1>4. CASE name = Default /\ \A k \in 1 .. (Len(argv) + 1) - 1 : ~ Named(k)
  <2>1. configs = {}
    <3>1. ASSUME NEW k \in configs
          PROVE  FALSE
      <4>1. k \in 1 .. (Len(argv) + 1) - 1
        BY <1>1, <1>3, <3>1
      <4> QED
        BY <1>3, <1>4, <3>1, <4>1
    <3> QED
      BY <3>1
  <2> QED
    BY <1>4, <2>1
<1>5. CASE \E k \in 1 .. (Len(argv) + 1) - 2 :
             /\ Named(k) /\ name = argv[k + 1]
             /\ \A l \in k + 2 .. (Len(argv) + 1) - 1 : ~ Named(l)
  <2>1. PICK k \in 1 .. (Len(argv) + 1) - 2 :
             /\ Named(k) /\ name = argv[k + 1]
             /\ \A l \in k + 2 .. (Len(argv) + 1) - 1 : ~ Named(l)
    BY <1>5
  <2>2. k \in Nat /\ k \in 1 .. Len(argv) /\ k + 1 \in 1 .. Len(argv)
    BY <1>1, <2>1
  <2>3. k % 2 = 1
    <3> SUFFICES ASSUME k % 2 # 1 PROVE FALSE
      OBVIOUS
    <3>1. (k + 1) % 2 = 1
      BY <2>2
    <3>2. argv[k + 1] \in DOMAIN OptionField \cup {"--config", "--second"}
      BY <1>1, <2>2, <3>1
    <3> QED
      BY <2>1, <3>2, NamesAssumption
  <2>4. k \in configs
    BY <1>1, <2>1, <2>2, <2>3 DEF Named
  <2>5. ASSUME NEW l \in configs
        PROVE  l <= k
    <3>1. Named(l) /\ l % 2 = 1 /\ l \in 1 .. Len(argv) - 1
      BY <1>3, <2>5
    <3>2. l \notin k + 2 .. (Len(argv) + 1) - 1
      BY <2>1, <3>1
    <3>3. l <= k + 1
      BY <1>1, <2>2, <3>1, <3>2
    <3>4. (k + 1) % 2 = 0
      BY <2>2, <2>3
    <3>5. l # k + 1
      BY <3>1, <3>4
    <3> QED
      BY <2>2, <3>1, <3>3, <3>5
  <2>6. configs \in SUBSET Nat
    BY <1>1
  <2>7. Latest(configs) = k
    <3> HIDE DEF configs
    <3> QED
      BY <2>4, <2>5, <2>6, LatestIs
  <2> QED
    BY <2>1, <2>4, <2>7
<1> QED
  BY <1>4, <1>5 DEF Chosen

LEMMA SettingsAreMeant ==
  ASSUME OptionsInv, SettingsInv
  PROVE  SettingsMeant
<1> SUFFICES ASSUME pc = "generator"
             PROVE  /\ \A field \in Plain \cup Names :
                         Told(field) # {} \/ LinesFor(field) # {} =>
                           config[field] = Meant(field)
                    /\ \A field \in Ranges :
                         LinesFor(field) # {} /\ Meant(field).got = Full(field) =>
                           config[field] = FromTo(Meant(field).first, Meant(field).plus)
                    /\ LET configs == {k \in DOMAIN argv :
                                         k % 2 = 1 /\ argv[k] = "--config"} IN
                         text = Files[IF configs = {} THEN Default
                                                      ELSE argv[Latest(configs) + 1]]
  BY Zenon DEF SettingsMeant
<1>1. OptionsRead /\ i = Len(argv) + 1 /\ Len(argv) \in Nat
  BY DEF SettingsInv, OptionsInv
<1>2. \A field : ToldTo(field, i) = Told(field)
  <2>1. DOMAIN argv = 1 .. i - 1
    BY <1>1 DEF OptionsInv
  <2> QED
    BY <2>1 DEF ToldTo, Told
<1>3. ASSUME NEW field \in Plain \cup Names, Told(field) # {} \/ LinesFor(field) # {}
      PROVE  config[field] = Meant(field)
  <2>1. IF ToldTo(field, i) = {} THEN Obeyed(field, LinesFor(field))
        ELSE config[field] = ValueOf(field, argv[Latest(ToldTo(field, i)) + 1])
    BY <1>1, Zenon DEF OptionsRead
  <2>2. CASE Told(field) # {}
    BY <1>2, <2>1, <2>2, Zenon DEF Meant
  <2>3. CASE Told(field) = {}
    BY <1>2, <1>3, <2>1, <2>3, Zenon DEF Meant, Obeyed
  <2> QED
    BY <2>2, <2>3
<1>4. ASSUME NEW field \in Ranges, LinesFor(field) # {}, Meant(field).got = Full(field)
      PROVE  config[field] = FromTo(Meant(field).first, Meant(field).plus)
  <2>1. Obeyed(field, LinesFor(field))
    BY <1>1 DEF OptionsRead
  <2>2. Told(field) = {}
    <3>1. field \notin Plain \cup Names
      BY FieldsDisjoint DEF Pointers
    <3> QED
      BY <3>1, OptionFields DEF Told
  <2>3. Meant(field) = text[Latest(LinesFor(field))].value
    BY <2>2, Zenon DEF Meant
  <2> QED
    BY <1>4, <2>1, <2>3, Zenon DEF Obeyed
<1>5. PICK name \in DOMAIN Files : text = Files[name] /\ Chosen(name, Len(argv) + 1)
  BY DEF SettingsInv
<1>6. LET configs == {k \in DOMAIN argv : k % 2 = 1 /\ argv[k] = "--config"} IN
        name = IF configs = {} THEN Default ELSE argv[Latest(configs) + 1]
  BY <1>1, <1>5, FileMeant
<1> QED
  BY <1>3, <1>4, <1>5, <1>6, Zenon

(***************************************************************************)
(* The theorems.                                                           *)
(***************************************************************************)

StartInv ==
  OptionsInv /\ SettledInv /\ ChipInv /\ WorkersInv /\ DmacInv /\ SettingsInv

LEMMA StartInit == Init => StartInv
BY OptionsInvInit, SettledInit, ChipInit, WorkersInit, DmacInit, SettingsInit
  DEF StartInv

LEMMA StartNext == StartInv /\ [Next]_vars => StartInv'
BY OptionsInvNext, SettledNext, ChipNext, WorkersNext, DmacNext, SettingsNext
  DEF StartInv

LEMMA StartTyped ==
  ASSUME StartInv
  PROVE  TypeOK
<1>1. /\ mpipe.ring \in Nat /\ mpipe.num_workers \in Nat /\ n \in Nat
      /\ Capacity["rings"] \in Nat /\ Cpus \in Nat
  BY ChipAssumption DEF StartInv, SettledInv, Counts, Resources
<1>2. chip.open \subseteq DOMAIN Instance
  BY DEF StartInv, ChipInv, RingsInv
<1>3. chip.iqueues \subseteq 0 .. Capacity["rings"] - 1
  <2>1. chip.iqueues = mpipe.ring .. mpipe.ring + Initialised - 1
    BY DEF StartInv, ChipInv, RingsInv
  <2>2. CASE stage \in NoRings
    BY <1>1, <2>1, <2>2 DEF Initialised
  <2>3. CASE stage \notin NoRings
    <3>1. Initialised \in Nat /\ Initialised <= mpipe.num_workers
      BY <1>1, <2>3 DEF Initialised, StartInv, ChipInv, RingsInv
    <3>2. mpipe.ring + mpipe.num_workers <= Capacity["rings"]
      BY <2>3 DEF StartInv, ChipInv, RingsInv
    <3> QED
      BY <1>1, <2>1, <3>1, <3>2
  <2> QED
    BY <2>2, <2>3
<1>4. Len(chip.rules) <= mpipe.num_workers /\ Len(chip.assigned) <= mpipe.num_workers
  <2>1. /\ Len(chip.assigned) <= Ruled /\ Len(chip.rules) <= Ruled
        /\ chip.assigned \in Seq(Groups) /\ chip.rules \in Seq(Rules)
        /\ stage = "rules" => n <= mpipe.num_workers
    BY DEF StartInv, ChipInv, RulesInv
  <2>2. Ruled \in Nat /\ Ruled <= mpipe.num_workers
    BY <1>1, <2>1 DEF Ruled
  <2>3. Len(chip.assigned) \in Nat /\ Len(chip.rules) \in Nat
    BY <2>1
  <2> QED
    BY <1>1, <2>1, <2>2, <2>3
<1>5. Len(made) = Len(generator) /\ Len(made) <= Cpus
  <2>1. /\ Len(generator) = Len(made)
        /\ Len(made) = IF stage = "ready" THEN n ELSE 0
        /\ stage = "ready" => n <= mpipe.num_workers
    BY DEF StartInv, WorkersInv
  <2>2. stage = "ready" => mpipe.num_workers <= Cpus
    BY DEF StartInv, SettledInv
  <2> QED
    BY <1>1, <2>1, <2>2
<1>6. /\ DOMAIN config = Plain \cup Ranges \cup Pointers \cup {"dmac"}
      /\ \A f \in Plain \cup {"dmac"} : config[f] \in Nat
      /\ \A f \in Ranges : config[f] \in [{"min", "cur", "max"} -> 0 .. Uint32 - 1]
  BY DEF StartInv, OptionsInv, ConfigOK, Settings
<1>7. /\ pc \in {"scan", "file", "options", "generator", "ended"}
      /\ i \in 1 .. Len(argv) + 1
      /\ status \in {"none", "0", "-1", "died", "crashed"}
      /\ pc = "ended" <=> status # "none"
      /\ complained \in BOOLEAN
  BY DEF StartInv, OptionsInv
<1> QED
  BY <1>2, <1>3, <1>4, <1>5, <1>6, <1>7, Zenon DEF TypeOK

\* The inductive invariant: what main has obeyed of the arguments and the file,
\* what init_mpipe_resource has told the chip, and how far each worker that
\* init_generator_set creates has gone with its copy of the settings.
THEOREM StartInvariant == Spec => []StartInv
BY StartInit, StartNext, PTL DEF Spec

\* Nothing that the program keeps of its settings, of the chip and of its
\* workers leaves its type, whatever the arguments and the file say: among
\* others, no ring is initialised that the chip does not have, and there are
\* no more workers than cpus.
THEOREM TypeCorrect == Spec => []TypeOK
<1>1. StartInv => TypeOK
  BY StartTyped
<1> QED
  BY StartInit, StartNext, <1>1, PTL DEF Spec

\* When the generator starts, config holds what the last option for a setting
\* says, or the last line that counts of the file that the last --config names,
\* for any arguments and any files that are not named like an option.
THEOREM SettingsMeantTheorem == Spec => []SettingsMeant
<1>1. StartInv => SettingsMeant
  BY SettingsAreMeant DEF StartInv
<1> QED
  BY StartInit, StartNext, <1>1, PTL DEF Spec

\* create_stack takes as much memory as the buffers need, in no more than 16
\* pages, whatever numbers of entries and workers the settings say and
\* whatever sizes of pages there are.
THEOREM BuffersInMemoryTheorem == Spec => []BuffersInMemory
<1>1. StartInv => BuffersInMemory
  BY InMemory DEF StartInv, ChipInv
<1> QED
  BY StartInit, StartNext, <1>1, PTL DEF Spec

\* The rules of init_mpipe_rules bring every frame that make_all_packet has
\* addressed back to the ring of the worker that sends it, for any number of
\* workers, any number of buckets and any address to begin with, unless one of
\* the calls that nobody looks at was refused.
THEOREM FramesReachOwnRingTheorem == Spec => []FramesReachOwnRing
<1>1. StartInv => FramesReachOwnRing
  BY FramesReach DEF StartInv
<1> QED
  BY StartInit, StartNext, <1>1, PTL DEF Spec

\* generator_udp_packet sweeps the four ranges as the settings say, and its ip
\* checksum is right, for any packet length, ranges and old contents of the
\* buffer that had a clear check field.
THEOREM HeadersRightTheorem == Spec => []HeadersRight
<1>1. StartInv => HeadersRight
  BY HeadersVerify DEF StartInv
<1> QED
  BY StartInit, StartNext, <1>1, PTL DEF Spec
=============================================================================
