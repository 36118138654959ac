------------------------------ MODULE ConfigFile ------------------------------
(***************************************************************************)
(* config.py and the configure command: processes of the command line that *)
(* share one TOML file.  set and unset read the whole file, change what    *)
(* they read in memory and write all of it back in place, without a lock.  *)
(* Each process runs one command and may die at any step.                  *)
(*                                                                         *)
(* A text is what a parser finds in it: tables of profiles, and whether    *)
(* there is anything else at the root.  What the writer leaves out is      *)
(* quoting, so a text that it has written need not parse.                  *)
(***************************************************************************)
EXTENDS Naturals, FiniteSets

CONSTANTS
    Processes,
    Profiles,       \* names; one of them is Default
    Default,        \* DEFAULT_PROFILE_NAME
    Settings,       \* the fields of ClientConfig
    Unknown,        \* a key that is none
    Values,
    Awkward,        \* names that need quotes, values with a line break
    Absent,
    Commands,       \* what the processes may be asked to do
    Files,          \* what is on disk at the beginning
    Ends            \* what the end of a text may read as, cut off anywhere

ASSUME ConfigFileAssumption ==
    /\ Default \in Profiles \ Awkward
    /\ Unknown \notin Settings
    /\ Absent \notin Values

Keys == Settings \cup {Unknown}

VARIABLES
    file,       \* what is on disk
    pc,         \* where each process is
    command,    \* what it has been asked to do
    view,       \* its data: the file as it was read, and changed
    result,     \* what a reading command prints or returns
    original,   \* history variable: what the file held at the beginning
    contents,   \* history variable: what it should hold, by the commands that have written
    raced,      \* history variable: a writer has read while another one was at work, or
                \* one has died between opening and writing
    torn        \* history variable: somebody has read a garbled file and found nothing wrong

vars == <<file, pc, command, view, result, original, contents, raced, torn>>

-----------------------------------------------------------------------------

Table == UNION {[S -> Values] : S \in SUBSET Keys}

\* What stands outside of [profiles.*]: nothing, scalars and tables of scalars, such a table
\* whose name needs quotes, or something with an array or a table inside.
Rest == {"nothing", "scalars", "quoted", "nested"}

Data == [profiles : UNION {[P -> Table] : P \in SUBSET Profiles}, rest : Rest]

NoData == [profiles |-> <<>>, rest |-> "nothing"]

\* dumped: written by _dump_toml and not by hand.
Text == [kind : {"text"}, data : Data, dumped : BOOLEAN]

NoFile == [kind |-> "absent"]
Empty == [kind |-> "text", data |-> NoData, dumped |-> TRUE]

\* The text of one writer, and after it the end of a longer one that was there.
Garbled == [kind : {"garbled"}, data : Data]

\* _dump_toml writes names as they are and escapes quotes and backslashes only.
Parses(text) ==
    text.dumped =>
        /\ text.data.rest # "quoted"
        /\ \A p \in DOMAIN text.data.profiles :
              /\ p \notin Awkward
              /\ \A k \in DOMAIN text.data.profiles[p] : text.data.profiles[p][k] \notin Awkward

\* data.get("profiles", {}).get(profile, {})
TableOf(data, p) == IF p \in DOMAIN data.profiles THEN data.profiles[p] ELSE <<>>

\* The end begins on a line of its own, since every text ends with a line break.  What comes
\* before the first table of it, the rest of a cut line included ("retries = 1" cut to
\* "ries = 1"), continues the last table of the text in front.  TOML has no key or table twice.
Continues(data, end) ==
    LET both == DOMAIN data.profiles \cap DOMAIN end.profiles IN
    /\ \A p, q \in both : p = q
    /\ \A p \in both : DOMAIN data.profiles[p] \cap DOMAIN end.profiles[p] = {}

Joined(data, end) ==
    [profiles |-> [p \in DOMAIN data.profiles \cup DOMAIN end.profiles |->
        LET t == TableOf(data, p)
            u == TableOf(end, p)
        IN [k \in DOMAIN t \cup DOMAIN u |-> IF k \in DOMAIN t THEN t[k] ELSE u[k]]],
     rest |-> IF data.rest = "nothing" THEN end.rest ELSE data.rest]

\* What tomllib.loads may return.  No file counts as an empty one.
Readings ==
    CASE file.kind = "absent"  -> {NoData}
      [] file.kind = "text"    -> {d \in {file.data} : Parses(file)}
      [] file.kind = "garbled" -> {d \in {Joined(file.data, end) : end \in {e \in Ends : Continues(file.data, e)}} :
                                      Parses([data |-> d, dumped |-> TRUE])}

\* TOMLDecodeError
MayNotParse == file.kind = "garbled" \/ (file.kind = "text" /\ ~Parses(file))

\* data.setdefault("profiles", {}).setdefault(profile, {})[setting] = coerced
SetIn(data, p, k, v) ==
    LET old == TableOf(data, p)
        new == [j \in DOMAIN old \cup {k} |-> IF j = k THEN v ELSE old[j]]
    IN [data EXCEPT !.profiles = [q \in DOMAIN @ \cup {p} |-> IF q = p THEN new ELSE @[q]]]

\* Mutant: the setting is set to None instead.
UnsetIn_None(data, p, k) ==
    IF k \notin DOMAIN TableOf(data, p) THEN data
    ELSE [data EXCEPT !.profiles = [q \in DOMAIN @ |->
            IF q = p THEN [j \in DOMAIN @[q] |-> IF j = k THEN Absent ELSE @[q][j]] ELSE @[q]]]

\* pop the setting, and the profile when nothing is left of it.
UnsetIn(data, p, k) ==
    LET old == TableOf(data, p)
        new == [j \in DOMAIN old \ {k} |-> old[j]]
    IN [data EXCEPT !.profiles =
          IF DOMAIN new = {} THEN [q \in DOMAIN @ \ {p} |-> @[q]]
                             ELSE [q \in DOMAIN @ |-> IF q = p THEN new ELSE @[q]]]

Changed(data, c) ==
    CASE c.kind = "set"   -> SetIn(data, c.profile, c.key, c.value)
      [] c.kind = "unset" -> UnsetIn(data, c.profile, c.key)

-----------------------------------------------------------------------------

\* profile is None when load_config is called without one.
NoProfile == "None"

Environments == UNION {[S -> Values] : S \in SUBSET Settings}

Command ==
    [kind : {"set"}, profile : Profiles, key : Keys, value : Values]
    \cup [kind : {"unset", "get"}, profile : Profiles, key : Keys]
    \cup [kind : {"load"}, profile : Profiles \cup {NoProfile}, env : Environments]
    \cup {[kind |-> "list"]}

ASSUME InputsAssumption ==
    /\ Commands \subseteq Command
    /\ Files \subseteq Text \cup {NoFile}
    /\ Ends \subseteq Data

IsWriter(c) == c.kind \in {"set", "unset"}

Nothing == [kind |-> "none"]

\* setattr for every entry; the keys have been looked at.
Applied(config, values) == [s \in Settings |-> IF s \in DOMAIN values THEN values[s] ELSE config[s]]

\* _apply_mapping raises for a key that is not a field.
HasUnknownKey(values) == ~(DOMAIN values \subseteq Settings)

IsNamed(p) == p \notin {NoProfile, Default}

LoadFails(data, c) ==
    \/ IsNamed(c.profile) /\ c.profile \notin DOMAIN data.profiles
    \/ HasUnknownKey(TableOf(data, Default))
    \/ IsNamed(c.profile) /\ HasUnknownKey(TableOf(data, c.profile))

\* Mutant: the environment first, so that profiles override it.
Loaded_ProfilesLast(data, c) ==
    LET env == Applied([s \in Settings |-> Absent], c.env)
        default == Applied(env, TableOf(data, Default))
    IN IF IsNamed(c.profile) THEN Applied(default, TableOf(data, c.profile)) ELSE default

\* Absent is the default of the dataclass.
Loaded(data, c) ==
    LET default == Applied([s \in Settings |-> Absent], TableOf(data, Default))
        named == IF IsNamed(c.profile) THEN Applied(default, TableOf(data, c.profile)) ELSE default
    IN Applied(named, c.env)

\* Mutant: like load, get falls back on the default profile.
ValueOf_FallsBack(data, p, k) ==
    IF k \in DOMAIN TableOf(data, p) THEN TableOf(data, p)[k]
    ELSE IF k \in DOMAIN TableOf(data, Default) THEN TableOf(data, Default)[k] ELSE Absent

\* get_config_value; Absent is None.
ValueOf(data, p, k) == IF k \in DOMAIN TableOf(data, p) THEN TableOf(data, p)[k] ELSE Absent

Answer(data, c) ==
    CASE c.kind = "get"  -> ValueOf(data, c.profile, c.key)
      [] c.kind = "list" -> DOMAIN data.profiles \cup {Default}
      [] c.kind = "load" -> Loaded(data, c)

-----------------------------------------------------------------------------

TypeOK ==
    /\ file \in Text \cup {NoFile} \cup Garbled
    /\ pc \in [Processes -> {"idle", "reading", "rendering", "opening", "writing",
                             "done", "rejected", "dead"}]
    /\ command \in [Processes -> Command \cup {Nothing}]
    /\ view \in [Processes -> Data]
    /\ {original, contents} \subseteq [entries : [Profiles \X Keys -> Values \cup {Absent}], rest : Rest]
    /\ {raced, torn} \subseteq BOOLEAN

\* Data without its tables, to say what it means.
Flat(data) ==
    [entries |-> [e \in Profiles \X Keys |->
                    LET t == TableOf(data, e[1]) IN IF e[2] \in DOMAIN t THEN t[e[2]] ELSE Absent],
     rest |-> data.rest]

Init ==
    /\ file \in Files
    /\ pc = [p \in Processes |-> "idle"]
    /\ command = [p \in Processes |-> Nothing]
    /\ view = [p \in Processes |-> NoData]
    /\ result = [p \in Processes |-> Nothing]
    /\ original = Flat(IF file.kind = "text" THEN file.data ELSE NoData)
    /\ contents = original
    /\ raced = FALSE
    /\ torn = FALSE

Go(p, where) == pc' = [pc EXCEPT ![p] = where]

\* set looks at the key before anything else.  (A key that does not look like profile.setting is
\* rejected at once by all three; the commands here have one.)
Begin(p) ==
    /\ pc[p] = "idle"
    /\ \E c \in Commands :
          /\ command' = [command EXCEPT ![p] = c]
          /\ Go(p, IF c.kind = "set" /\ c.key \notin Settings THEN "rejected" ELSE "reading")
    /\ UNCHANGED <<file, view, result, original, contents, raced, torn>>

\* A reading command is over when it has read.
Answers(p) ==
    /\ pc[p] = "reading"
    /\ ~IsWriter(command[p])
    /\ \E data \in Readings :
          IF command[p].kind = "load" /\ LoadFails(data, command[p])
          THEN Go(p, "rejected") /\ UNCHANGED result
          ELSE Go(p, "done") /\ result' = [result EXCEPT ![p] = Answer(data, command[p])]
    /\ torn' = (torn \/ file.kind = "garbled")
    /\ UNCHANGED <<file, command, view, original, contents, raced>>

AtWork(p) == pc[p] \in {"rendering", "opening", "writing"}

\* _read_data, and the change in memory.
Reads(p) ==
    /\ pc[p] = "reading"
    /\ IsWriter(command[p])
    /\ \E data \in Readings : view' = [view EXCEPT ![p] = Changed(data, command[p])]
    /\ Go(p, "rendering")
    /\ raced' = (raced \/ \E q \in Processes \ {p} : AtWork(q))
    /\ torn' = (torn \/ file.kind = "garbled")
    /\ UNCHANGED <<file, command, result, original, contents>>

ReadFails(p) ==
    /\ pc[p] = "reading"
    /\ MayNotParse
    /\ Go(p, "rejected")
    /\ UNCHANGED <<file, command, view, result, original, contents, raced, torn>>

\* Mutant: the file is opened first.
Renders_IntoOpenFile(p) ==
    /\ pc[p] = "rendering"
    /\ Go(p, IF view[p].rest = "nested" THEN "rejected" ELSE "opening")
    /\ file' = Empty
    /\ UNCHANGED <<command, view, result, original, contents, raced, torn>>

\* _dump_toml, the argument of write_text; arrays and tables in tables are a ConfigError.
Renders(p) ==
    /\ pc[p] = "rendering"
    /\ Go(p, IF view[p].rest = "nested" THEN "rejected" ELSE "opening")
    /\ UNCHANGED <<file, command, view, result, original, contents, raced, torn>>

\* write_text opens with mode "w".
Opens(p) ==
    /\ pc[p] = "opening"
    /\ file' = Empty
    /\ Go(p, "writing")
    /\ UNCHANGED <<command, view, result, original, contents, raced, torn>>

\* What the command means, whatever the file looks like.
Meant(old, c) ==
    [old EXCEPT !.entries[<<c.profile, c.key>>] = IF c.kind = "set" THEN c.value ELSE Absent]

\* One write at the beginning of the file, where others may have written since.  Data without
\* anything is an empty text, and writing that changes nothing.
Writes(p) ==
    /\ pc[p] = "writing"
    /\ \/ view[p] = NoData /\ UNCHANGED file
       \/ view[p] # NoData /\ file' = [kind |-> "text", data |-> view[p], dumped |-> TRUE]
       \/ view[p] # NoData /\ file # Empty /\ file' = [kind |-> "garbled", data |-> view[p]]
    /\ Go(p, "done")
    /\ contents' = Meant(contents, command[p])
    /\ UNCHANGED <<command, view, result, original, raced, torn>>

\* Ctrl-C, a kill, a full disk.
Dies(p) ==
    /\ pc[p] = "reading" \/ AtWork(p)
    /\ Go(p, "dead")
    /\ raced' = (raced \/ pc[p] = "writing")
    /\ UNCHANGED <<file, command, view, result, original, contents, torn>>

Next ==
    \E p \in Processes :
        \/ Begin(p)
        \/ Answers(p)
        \/ Reads(p)
        \/ ReadFails(p)
        \/ Renders(p)
        \/ Opens(p)
        \/ Writes(p)
        \/ Dies(p)

Spec == Init /\ [][Next]_vars

-----------------------------------------------------------------------------
(***************************************************************************)
(* Unless a writer has read while another one was at work, or one died     *)
(* with the file open, nothing is lost: the file holds what the completed  *)
(* commands mean, one after the other, and what stands outside of the      *)
(* profiles.  A command that is rejected, or dies earlier, counts for      *)
(* nothing.                                                                *)
(***************************************************************************)
Settled == ~raced /\ \A p \in Processes : pc[p] # "writing"

NothingLost ==
    Settled =>
        /\ file.kind # "garbled"
        /\ Flat(IF file.kind = "text" THEN file.data ELSE NoData) = contents

(***************************************************************************)
(* Whatever races and whatever dies, a value comes from the original file  *)
(* or from a set of this very key: settings may be lost, they are not      *)
(* mixed up, and nobody reads one that nobody wrote.  That is, unless a    *)
(* garbled file has been read as if it were a good one: its end may move a *)
(* value to another key or profile, and from there into the next text.     *)
(***************************************************************************)
Honest(e, v) ==
    \/ v \in {Absent, original.entries[e]}
    \/ \E p \in Processes : command[p] = [kind |-> "set", profile |-> e[1], key |-> e[2], value |-> v]

NothingInvented ==
    ~torn =>
        /\ file.kind # "absent" =>
              \A e \in Profiles \X Keys : Honest(e, Flat(file.data).entries[e])
        /\ \A p \in Processes :
              pc[p] = "done" /\ command[p].kind = "get" =>
                  Honest(<<command[p].profile, command[p].key>>, result[p])

\* Nobody takes a garbled file for a good one.  It does not hold, see section 4 of the README.
GarbledIsNoticed == ~torn

(***************************************************************************)
(* What a reading command says is what the file should hold at that time.  *)
(* load prefers the environment to the profile, the profile to the default *)
(* profile, and that to the default of the field.  list knows a profile,   *)
(* and load does not reject it, as long as one of its settings is there.   *)
(***************************************************************************)
Entry(p, k) == contents.entries[<<p, k>>]

HasEntries(p) == \E k \in Keys : Entry(p, k) # Absent

Expected(c) ==
    CASE c.kind = "get"  -> Entry(c.profile, c.key)
      [] c.kind = "list" -> {p \in Profiles : p = Default \/ HasEntries(p)}
      [] c.kind = "load" ->
           [s \in Settings |->
              CASE s \in DOMAIN c.env -> c.env[s]
                [] s \notin DOMAIN c.env /\ c.profile # NoProfile /\ Entry(c.profile, s) # Absent
                     -> Entry(c.profile, s)
                [] OTHER -> Entry(Default, s)]

Rejectable(c) ==
    /\ c.kind = "load"
    /\ \/ Entry(Default, Unknown) # Absent
       \/ c.profile # NoProfile /\ Entry(c.profile, Unknown) # Absent
       \/ c.profile \notin {NoProfile, Default} /\ ~HasEntries(c.profile)

AnswersAreCurrent ==
    [][\A p \in Processes :
         Answers(p) /\ Settled =>
            IF pc'[p] = "done" THEN result'[p] = Expected(command[p]) /\ ~Rejectable(command[p])
                               ELSE Rejectable(command[p])]_vars

\* What the program has written it can read.
ReadsWhatItWrote == file.kind = "text" => Parses(file)

===============================================================================
