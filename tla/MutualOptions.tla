--------------------------- MODULE MutualOptions ---------------------------
(***************************************************************************)
(* clib-src/mpipe_mutual/mpipe_mutual.c and config.c: how mpipe_mutual     *)
(* comes by its settings.  main looks through its arguments for --config,  *)
(* reads that file line by line into a config_t that malloc left as it     *)
(* was, then goes through the arguments once more.                         *)
(***************************************************************************)
EXTENDS Integers, Sequences

CONSTANTS
  Argvs,     \* the argument lists: sequences of words
  Default,   \* the word CONFIG_FILE stands for
  Files,     \* a function from the names of the files that can be opened to
             \* their contents, sequences of lines
  Number,    \* a function from the words that are numbers to their values
  Garbage,   \* what an unset number of the config_t may hold
  Uint32,    \* how many values a uint32_t has
  NoName     \* what an unset string of the config_t holds

VARIABLES
  pc,          \* "scan", "file", "options", "generator" or "ended"
  argv,        \* never changes
  i,           \* the loop counter of the loop over argv main is in
  config_file,
  rest,        \* the lines of the file not yet read
  config,      \* the config_t
  status,      \* how the process ended: the exit status, or "crashed"
  \* History, read by the properties only:
  text,        \* the lines of the file that was opened
  complained   \* has "Read config file Error" been printed?

optionVars == <<pc, argv, i, config_file, rest, config, status, text, complained>>

\* The settings, without those nothing reads (SPEED).  srcmac and dstmac stand
\* for their last octets, and what malloc left is the same for all numbers.
Plain  == {"protocol", "srcmac", "dstmac", "pktlen", "num_workers",
           "notif_ring_entries", "equeue_entries", "per_worker_buckets",
           "once_packet_nums", "timeout", "errornum", "check_level"}
Ranges == {"saddr", "daddr", "sport", "dport"}
Names  == {"send_link_name", "recv_link_name"}
Pointers == Names \cup {"pkt_data"}
Settings == Plain \cup Ranges \cup Pointers \cup {"dmac"}

\* A line has the setting its name stands for ("none" for a comment, an empty
\* line or any other name), a value, and a newline or not.  The value of a
\* range says how many numbers sscanf converts (-1 for an empty value), the
\* first address or port and what follows the plus sign.
Addresses == {"saddr", "daddr"}
Full(field) == IF field \in Addresses THEN 5 ELSE 2

Read == [got : Int, first : 0 .. Uint32 - 1, plus : Nat]
Lines == [field : Plain, value : Nat, newline : BOOLEAN]
    \cup [field : Ranges, value : Read, newline : BOOLEAN]
    \cup [field : Pointers, value : STRING, newline : BOOLEAN]
    \cup [field : {"none"}, value : {0}, newline : BOOLEAN]

\* No number is negative (in the code it would be a huge one); only the last
\* line of a file may have no newline.
ASSUME InputAssumption ==
  /\ Uint32 \in Nat \ {0} /\ Garbage \subseteq 0 .. Uint32 - 1
  /\ Argvs \subseteq Seq(STRING)
  /\ \A w \in DOMAIN Number : Number[w] \in Nat
  /\ \A name \in DOMAIN Files :
       /\ Files[name] \in Seq(Lines)
       /\ \A k \in 1 .. Len(Files[name]) - 1 : Files[name][k].newline

FromTo_Wide(first, n) == [min |-> first, cur |-> first, max |-> first + n]
FromTo(first, n) ==
  [min |-> first, cur |-> first, max |-> (first + n) % Uint32]

MutualOptionsInit ==
  /\ pc = "scan" /\ argv \in Argvs /\ i = 1
  /\ config_file = Default /\ rest = <<>>
  /\ \E g \in Garbage :
       config = [f \in Settings |-> CASE f \in Ranges   -> FromTo(g, 0)
                                     [] f \in Pointers -> NoName
                                     [] OTHER          -> g]
  /\ status = "none" /\ text = <<>> /\ complained = FALSE

End(s) == pc' = "ended" /\ status' = s

-----------------------------------------------------------------------------
(* The first loop of main, then read_config_file. *)

HasValue == i + 1 <= Len(argv)

ScanConfig_First ==
  IF config_file = Default THEN argv[i + 1] ELSE config_file
ScanConfig == argv[i + 1]

Scan ==
  /\ pc = "scan" /\ i <= Len(argv)
  /\ IF argv[i] = "--config" /\ HasValue
       THEN config_file' = ScanConfig /\ i' = i + 2
       ELSE i' = i + 1 /\ UNCHANGED config_file
  /\ UNCHANGED <<pc, argv, rest, config, status, text, complained>>

Open ==
  /\ pc = "scan" /\ i > Len(argv)
  /\ IF config_file \in DOMAIN Files
       THEN /\ pc' = "file" /\ UNCHANGED status
            /\ rest' = Files[config_file] /\ text' = rest'
       ELSE End("-1") /\ UNCHANGED <<rest, text>>
  /\ UNCHANGED <<argv, i, config_file, config, complained>>

\* fgets has met the end of the file, perhaps behind a last line that has no
\* newline: what it has read then is not looked at.
AtEnd == rest # <<>> => ~ Head(rest).newline

BadValue(line) == line.field \in Ranges /\ line.value.got = -1

\* The locals of sscanf keep what was on the stack when it does not reach them:
\* a port that is no number, and the counter, which is 0 after one number only.
First(line) ==
  IF line.value.got = 0 /\ line.field \notin Addresses THEN Garbage
                                                      ELSE {line.value.first}
Counter(line) ==
  CASE line.value.got = Full(line.field) -> {line.value.plus}
    [] line.value.got = 1                -> {0}
    [] OTHER                             -> Garbage

\* A link name ends before its newline; it is not empty.
Assign(line) ==
  CASE line.field \in Ranges ->
         \E first \in First(line), counter \in Counter(line) :
           config' = [config EXCEPT ![line.field] = FromTo(first, counter)]
    [] line.field \in Plain \cup Pointers ->
         config' = [config EXCEPT ![line.field] = line.value]
    [] OTHER -> UNCHANGED config

TooLong(line) == line.field = "pktlen" /\ line.value > 1514

ReadLine ==
  /\ pc = "file" /\ ~ AtEnd /\ ~ BadValue(Head(rest))
  /\ Assign(Head(rest))
  /\ rest' = Tail(rest)
  /\ IF TooLong(Head(rest))
       THEN End("0") /\ complained' = TRUE
       ELSE UNCHANGED <<pc, status, complained>>
  /\ UNCHANGED <<argv, i, config_file, text>>

\* The rest of the file is not read and config->dmac not set, but nobody looks
\* at what read_config_file returns.
GiveUp ==
  /\ pc = "file" /\ ~ AtEnd /\ BadValue(Head(rest))
  /\ complained' = TRUE
  /\ pc' = "options" /\ i' = 1
  /\ UNCHANGED <<argv, config_file, rest, config, status, text>>

EndOfFile ==
  /\ pc = "file" /\ AtEnd
  /\ config' = [config EXCEPT !["dmac"] = config["dstmac"]]
  /\ pc' = "options" /\ i' = 1
  /\ UNCHANGED <<argv, config_file, rest, status, text, complained>>

-----------------------------------------------------------------------------
(* The second loop of main. *)

OptionField ==
  [o \in {"--sender", "--recver", "--srcmac", "--errornum", "--pktlen",
          "--workers", "--timeout", "--queue_length", "--check_level"} |->
     CASE o = "--sender"       -> "send_link_name"
       [] o = "--recver"       -> "recv_link_name"
       [] o = "--srcmac"       -> "srcmac"
       [] o = "--errornum"     -> "errornum"
       [] o = "--pktlen"       -> "pktlen"
       [] o = "--workers"      -> "num_workers"
       [] o = "--timeout"      -> "timeout"
       [] o = "--queue_length" -> "once_packet_nums"
       [] OTHER                -> "check_level"]

\* No file is named like an option that takes a value: given as such a value,
\* the first loop, which does not know the options, would open it.
ASSUME NamesAssumption ==
  DOMAIN Files \cap (DOMAIN OptionField \cup {"--config", "--second"}) = {}

\* A link name is taken as it is, a number as far as atoi can read it.
ValueOf(field, word) ==
  IF field \in Names THEN word
  ELSE IF word \in DOMAIN Number THEN Number[word] ELSE 0

Option ==
  /\ pc = "options" /\ i <= Len(argv)
  /\ CASE argv[i] \in DOMAIN OptionField /\ HasValue ->
            /\ config' = [config EXCEPT ![OptionField[argv[i]]] =
                            ValueOf(OptionField[argv[i]], argv[i + 1])]
            /\ i' = i + 2 /\ UNCHANGED <<config_file, pc, status>>
       [] argv[i] = "--config" /\ HasValue ->
            /\ config_file' = argv[i + 1]
            /\ i' = i + 2 /\ UNCHANGED <<config, pc, status>>
       [] argv[i] = "--second" /\ HasValue ->
            i' = i + 2 /\ UNCHANGED <<config, config_file, pc, status>>
       [] argv[i] = "--version" ->
            End("0") /\ UNCHANGED <<config, config_file, i>>
       [] OTHER -> End("-1") /\ UNCHANGED <<config, config_file, i>>
  /\ UNCHANGED <<argv, rest, text, complained>>

\* An unset string is a pointer to anywhere, and all three are printed.
print_config_file ==
  /\ pc = "options" /\ i > Len(argv)
  /\ \E f \in Pointers : config[f] = NoName
  /\ End("crashed")
  /\ UNCHANGED <<argv, i, config_file, rest, config, text, complained>>

OptionsDone ==
  /\ pc = "options" /\ i > Len(argv)
  /\ pc' = "generator"
  /\ UNCHANGED <<argv, i, config_file, rest, config, status, text, complained>>

MutualOptionsNext ==
  \/ Scan \/ Open \/ ReadLine \/ GiveUp \/ EndOfFile
  \/ Option \/ print_config_file \/ OptionsDone

-----------------------------------------------------------------------------
(* Properties. *)

\* What the arguments and the file say of a setting, read as a user reads
\* them: the last option for it, which overrides the file; without one, the
\* last line for it, up to the first value of which the program complains and
\* without a last line that does not end; without either, nothing.
Told(field) ==
  {k \in DOMAIN argv : k % 2 = 1 /\ argv[k] \in DOMAIN OptionField
                         /\ OptionField[argv[k]] = field}

LineCounts(k) == text[k].newline /\ \A l \in 1 .. k : ~ BadValue(text[l])

LinesFor(field) == {k \in DOMAIN text : text[k].field = field /\ LineCounts(k)}

Latest(s) == CHOOSE k \in s : \A l \in s : l <= k

Meant(field) ==
  IF Told(field) # {} THEN ValueOf(field, argv[Latest(Told(field)) + 1])
  ELSE text[Latest(LinesFor(field))].value

\* The generator starts from the settings the user has given, whatever the
\* order of the options and of the lines and however often one comes, and
\* the file read was the one that the last --config names.
SettingsMeant ==
  pc = "generator" =>
    /\ \A field \in Plain \cup Names :
         Told(field) # {} \/ LinesFor(field) # {} =>
           config[field] = Meant(field)
    /\ \A field \in Ranges :
         LinesFor(field) # {} /\ Meant(field).got = Full(field) =>
           config[field] = FromTo(Meant(field).first, Meant(field).plus)
    /\ LET configs == {k \in DOMAIN argv : k % 2 = 1 /\ argv[k] = "--config"} IN
         text = Files[IF configs = {} THEN Default
                                      ELSE argv[Latest(configs) + 1]]
=============================================================================
