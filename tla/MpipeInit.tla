----------------------------- MODULE MpipeInit -----------------------------
(***************************************************************************)
(* clib-src/mpipe_mutual/mpipe.c: init_mpipe_config copies the settings,   *)
(* init_mpipe_resource takes what the program needs from the network chip: *)
(* links, one notification ring and one group per worker, buckets, an      *)
(* egress ring, a stack of buffers and the rules that say which frame goes *)
(* to which worker.  A call that fails ends the process (tmc_task_die),    *)
(* but for the few whose results nobody looks at.                          *)
(***************************************************************************)
EXTENDS MutualOptions, FiniteSets

CONSTANTS
  Cpus,       \* how many cpus the process may use
  Instance,   \* the mPIPE instance of each link there is, by name
  Capacity,   \* what the chip has of each kind of resource
  Held,       \* what other programs hold of it
  Sizes,      \* the numbers of entries the chip takes for its queues
  PageSizes,  \* the sizes of pages there are
  Block,      \* how much malloc allocates for each link name
  MayFail     \* may calls fail without a reason known to the program?

Resources == {"rings", "groups", "buckets", "edma", "stacks"}
\* The chip has fewer than 256 cpus.
ASSUME ChipAssumption ==
  /\ Cpus \in 0 .. 255 /\ PageSizes \subseteq Nat \ {0} /\ MayFail \in BOOLEAN
  /\ Capacity \in [Resources -> Nat] /\ Held \in [Resources -> Nat]

VARIABLES
  stage,   \* the call of init_mpipe_resource that is next
  n,       \* the loop counter of the loop it is in
  mpipe,   \* the mpipe_common_t
  chip     \* what the chip has been told; `refused` is history: has a call of
           \* init_mpipe_rules failed that nobody looks at?

initVars == <<stage, n, mpipe, chip>>

MpipeInitInit ==
  /\ stage = "config" /\ n = 0
  /\ mpipe = [send_link_name |-> NoName, recv_link_name |-> NoName,
              notif_ring_entries |-> 0, equeue_entries |-> 0,
              per_worker_buckets |-> 0, num_workers |-> 0, dmac |-> 0,
              instance |-> 0, send_channel |-> NoName, recv_channel |-> NoName,
              ring |-> 0, group |-> 0, bucket |-> 0]
  /\ chip = [open |-> {}, iqueues |-> {}, memory |-> <<>>, assigned |-> <<>>,
             rules |-> <<>>, refused |-> FALSE]

At(s) == pc = "generator" /\ stage = s
Then(s) == stage' = s /\ UNCHANGED optionVars

-----------------------------------------------------------------------------
(* init_mpipe_config *)

\* The copy of recv_link_name has the length of send_link_name.
Overrun ==
  /\ NoName \notin {config["send_link_name"], config["recv_link_name"]}
  /\ Block[config["recv_link_name"]] > Block[config["send_link_name"]]

CopyConfig ==
  /\ At("config")
  /\ mpipe' = [f \in DOMAIN mpipe |-> IF f \in DOMAIN config THEN config[f]
                                                             ELSE mpipe[f]]
  /\ Then("cpus")
  /\ UNCHANGED <<n, chip>>

\* An unset name is a pointer to anywhere, which strlen may or may not survive;
\* so is what lies behind the copy.
Crash ==
  /\ At("config")
  /\ Overrun \/ NoName \in {config["send_link_name"], config["recv_link_name"]}
  /\ End("crashed")
  /\ UNCHANGED <<argv, i, config_file, rest, config, text, complained, initVars>>

-----------------------------------------------------------------------------
(* Memory. *)

RoundUp(x, unit) == ((x + unit - 1) \div unit) * unit
buffer_size == 1664
buffer_stack_bytes(num) == ((num + 11) \div 12) * 64

stack_bytes(num) == RoundUp(buffer_stack_bytes(num), 128)
needed(num) == stack_bytes(num) + num * buffer_size

pagesize(bytes) ==
  CHOOSE p \in PageSizes :
    p >= bytes /\ \A q \in PageSizes : q >= bytes => p <= q

pages_Down(num) == needed(num) \div pagesize(needed(num) \div 16)
pages(num) ==
  LET size == pagesize(needed(num) \div 16) IN (needed(num) + size - 1) \div size

num_bufs ==
  mpipe.equeue_entries + mpipe.num_workers * mpipe.notif_ring_entries
num_buckets == mpipe.num_workers * mpipe.per_worker_buckets

-----------------------------------------------------------------------------
(* init_mpipe_resource.  The chip hands out what is not held. *)

Wanted(kind) ==
  CASE kind \in {"rings", "groups"} -> mpipe.num_workers
    [] kind = "buckets"             -> num_buckets
    [] OTHER                        -> 1

\* There is a reason for the call that is next to fail.
Refused ==
  CASE stage = "cpus"     -> Cpus < mpipe.num_workers
    [] stage = "instance" -> mpipe.recv_link_name \notin DOMAIN Instance
    [] stage = "iqueues"  ->
         n < mpipe.num_workers /\ mpipe.notif_ring_entries \notin Sizes["iqueues"]
    [] stage \in Resources ->
         \/ Held[stage] + Wanted(stage) > Capacity[stage]
         \/ stage = "edma" /\ mpipe.equeue_entries \notin Sizes["edma"]
    [] stage = "buffers"  ->
         \A p \in PageSizes : p < needed(num_bufs) \div 16
    [] OTHER              -> FALSE

Die ==
  /\ pc = "generator" /\ stage \notin {"config", "rules", "ready"}
  /\ Refused \/ MayFail
  /\ End("died")
  /\ UNCHANGED <<argv, i, config_file, rest, config, text, complained, initVars>>

Succeeds(s) == At(s) /\ ~ Refused

CheckCpus ==
  /\ Succeeds("cpus")
  /\ Then("instance")
  /\ UNCHANGED <<n, mpipe, chip>>

StartDriver ==
  /\ Succeeds("instance")
  /\ mpipe' = [mpipe EXCEPT !.instance = Instance[mpipe.recv_link_name]]
  /\ Then("link")
  /\ UNCHANGED <<n, chip>>

OpenReceiver ==
  /\ Succeeds("link")
  /\ chip'  = [chip EXCEPT !.open = {mpipe.recv_link_name}]
  /\ mpipe' = [mpipe EXCEPT !.recv_channel = mpipe.recv_link_name,
                            !.send_channel = mpipe.recv_link_name]
  /\ Then(IF mpipe.send_link_name = mpipe.recv_link_name THEN "rings"
                                                         ELSE "sender")
  /\ UNCHANGED n

\* Whether the link was opened is not checked: the channel is taken from a
\* gxio_mpipe_link_t that may never have been set.
Opens(link) == link \in DOMAIN Instance /\ Instance[link] = mpipe.instance

OpenSender ==
  /\ Succeeds("sender")
  /\ \/ /\ Opens(mpipe.send_link_name)
        /\ chip'  = [chip EXCEPT !.open = @ \cup {mpipe.send_link_name}]
        /\ mpipe' = [mpipe EXCEPT !.send_channel = mpipe.send_link_name]
     \/ /\ MayFail \/ ~ Opens(mpipe.send_link_name)
        /\ mpipe' = [mpipe EXCEPT !.send_channel = NoName]
        /\ UNCHANGED chip
  /\ Then("rings")
  /\ UNCHANGED n

AllocRings ==
  /\ Succeeds("rings")
  /\ mpipe' = [mpipe EXCEPT !.ring = Held["rings"]]
  /\ Then("iqueues") /\ n' = 0
  /\ UNCHANGED chip

InitIqueue ==
  /\ Succeeds("iqueues") /\ n < mpipe.num_workers
  /\ chip' = [chip EXCEPT !.iqueues = @ \cup {mpipe.ring + n}]
  /\ n' = n + 1
  /\ UNCHANGED <<optionVars, stage, mpipe>>

IqueuesDone ==
  /\ Succeeds("iqueues") /\ n >= mpipe.num_workers
  /\ Then("groups")
  /\ UNCHANGED <<n, mpipe, chip>>

AllocGroups ==
  /\ Succeeds("groups")
  /\ mpipe' = [mpipe EXCEPT !.group = Held["groups"]]
  /\ Then("buckets")
  /\ UNCHANGED <<n, chip>>

AllocBuckets ==
  /\ Succeeds("buckets")
  /\ mpipe' = [mpipe EXCEPT !.bucket = Held["buckets"]]
  /\ Then("edma")
  /\ UNCHANGED <<n, chip>>

InitEqueue ==
  /\ Succeeds("edma")
  /\ Then("stacks")
  /\ UNCHANGED <<n, mpipe, chip>>

AllocStack ==
  /\ Succeeds("stacks")
  /\ Then("buffers")
  /\ UNCHANGED <<n, mpipe, chip>>

create_stack ==
  /\ Succeeds("buffers")
  /\ chip' = [chip EXCEPT !.memory =
       <<[first |-> stack_bytes(num_bufs), number |-> num_bufs,
          pages |-> pages(num_bufs),
          bytes |-> pages(num_bufs) * pagesize(needed(num_bufs) \div 16)]>>]
  /\ Then("rules") /\ n' = 0
  /\ UNCHANGED mpipe

-----------------------------------------------------------------------------
(* init_mpipe_rules *)

IsPowerOf2(x) == \E k \in 0 .. 16 : x = 2 ^ k

BucketOf_Next(w) == mpipe.bucket + w
BucketOf(w) == mpipe.bucket + w * mpipe.per_worker_buckets

Group(w) ==
  [group |-> mpipe.group + w, ring |-> mpipe.ring + w, first |-> BucketOf(w)]
Dmac(w) == (mpipe.dmac + w) % 256

\* An address goes to the rule begun last, if there is one.
WithDmac(rules, dmac) ==
  IF rules = <<>> THEN rules
  ELSE [rules EXCEPT ![Len(rules)].dmacs = @ \cup {dmac}]

\* Does a call do what it is told?
Done == IF MayFail THEN BOOLEAN ELSE {TRUE}

\* The chip begins a rule for a power of two of buckets only.  None of the three
\* calls is checked: a group may be missing, or a rule, whose address goes to
\* the rule before, or an address.
AddRule ==
  /\ At("rules") /\ n < mpipe.num_workers
  /\ \E grouped \in Done, begun \in Done, added \in Done :
       LET begins == begun /\ IsPowerOf2(mpipe.per_worker_buckets)
           rules  == IF begins
                       THEN Append(chip.rules, [first |-> BucketOf(n), dmacs |-> {}])
                       ELSE chip.rules
       IN chip' = [chip EXCEPT
            !.assigned = IF grouped THEN Append(@, Group(n)) ELSE @,
            !.rules    = IF added THEN WithDmac(rules, Dmac(n)) ELSE rules,
            !.refused  = @ \/ ~ (grouped /\ begins /\ added)]
  /\ n' = n + 1
  /\ UNCHANGED <<optionVars, stage, mpipe>>

RulesDone ==
  /\ At("rules") /\ n >= mpipe.num_workers
  /\ Then("commit")
  /\ UNCHANGED <<n, mpipe, chip>>

Commit ==
  /\ Succeeds("commit")
  /\ Then("ready") /\ n' = 0
  /\ UNCHANGED <<mpipe, chip>>

MpipeInitNext ==
  \/ CopyConfig \/ Crash \/ Die
  \/ CheckCpus \/ StartDriver \/ OpenReceiver \/ OpenSender
  \/ AllocRings \/ InitIqueue \/ IqueuesDone \/ AllocGroups \/ AllocBuckets
  \/ InitEqueue \/ AllocStack \/ create_stack
  \/ AddRule \/ RulesDone \/ Commit

-----------------------------------------------------------------------------
(* What the chip does with a frame: the first rule for its address, or for   *)
(* any, picks a bucket, the bucket's group the ring.  What was said last     *)
(* holds.                                                                    *)

Bucket(first) == first .. first + mpipe.per_worker_buckets - 1

LastOf(s) == CHOOSE k \in s : \A l \in s : l <= k
FirstOf(s) == CHOOSE k \in s : \A l \in s : k <= l

GroupOf(b) ==
  chip.assigned[LastOf({k \in DOMAIN chip.assigned :
                          b \in Bucket(chip.assigned[k].first)})].group
RingOf(g) ==
  chip.assigned[LastOf({k \in DOMAIN chip.assigned :
                          chip.assigned[k].group = g})].ring

RulesFor(dmac) ==
  {k \in DOMAIN chip.rules :
     chip.rules[k].dmacs = {} \/ dmac \in chip.rules[k].dmacs}

RingsFor(dmac) ==
  IF RulesFor(dmac) = {} THEN {}
  ELSE {RingOf(GroupOf(b)) :
          b \in Bucket(chip.rules[FirstOf(RulesFor(dmac))].first)}
=============================================================================
