--------------------------- MODULE ConfigFile_proofs ---------------------------
(***************************************************************************)
(* For any number of processes, profiles, settings and commands: types,    *)
(* what a command means to the file, that nothing is lost without a race,  *)
(* that nothing is invented with one unless a garbled file has been read   *)
(* as if it were a good one, that answers are those of the file,           *)
(* and what it takes that the program can read what it has written.        *)
(***************************************************************************)
EXTENDS ConfigFile, TLAPS

LEMMA EmptyFunction == DOMAIN <<>> = {} /\ \A S : <<>> \in [{} -> S]
OBVIOUS

LEMMA NoDataIsData == NoData \in Data /\ \A e \in Profiles \X Keys : Flat(NoData).entries[e] = Absent
<1>1. <<>> \in UNION {[P -> Table] : P \in SUBSET Profiles}
  BY EmptyFunction
<1>2. NoData \in Data
  BY <1>1 DEF NoData, Data, Rest
<1>3. \A q : TableOf(NoData, q) = <<>>
  BY EmptyFunction DEF NoData, TableOf
<1> QED
  BY <1>2, <1>3, EmptyFunction DEF Flat

\* What a table is, and that one which is not there counts as empty.
LEMMA Tables ==
    ASSUME NEW data \in Data
    PROVE  /\ data.rest \in Rest
           /\ DOMAIN data.profiles \subseteq Profiles
           /\ data.profiles = [q \in DOMAIN data.profiles |-> data.profiles[q]]
           /\ \A q \in DOMAIN data.profiles : data.profiles[q] \in Table
           /\ \A q \in Profiles : TableOf(data, q) \in Table
<1>1. PICK P \in SUBSET Profiles : data.profiles \in [P -> Table]
  BY DEF Data
<1>2. <<>> \in Table
  BY EmptyFunction DEF Table
<1> QED
  BY <1>1, <1>2 DEF Data, TableOf

LEMMA TableIsFunction ==
    ASSUME NEW t \in Table
    PROVE  DOMAIN t \subseteq Keys /\ \A k \in DOMAIN t : t[k] \in Values
<1>1. PICK S \in SUBSET Keys : t \in [S -> Values]
  BY DEF Table
<1> QED
  BY <1>1

\* Data with other tables is data.
LEMMA NewData ==
    ASSUME NEW data \in Data, NEW P \in SUBSET Profiles, NEW f \in [P -> Table]
    PROVE  /\ [data EXCEPT !.profiles = f] \in Data
           /\ [data EXCEPT !.profiles = f].profiles = f
           /\ [data EXCEPT !.profiles = f].rest = data.rest
BY DEF Data

Entries(t) == [k \in Keys |-> IF k \in DOMAIN t THEN t[k] ELSE Absent]

LEMMA FlatIsByTable ==
    ASSUME NEW data \in Data
    PROVE  /\ \A q \in Profiles, k \in Keys :
                 /\ Flat(data).entries[<<q, k>>] = Entries(TableOf(data, q))[k]
                 /\ Flat(data).entries[<<q, k>>] \in Values \cup {Absent}
           /\ Flat(data).rest = data.rest
           /\ Flat(data).entries = [e \in Profiles \X Keys |-> Flat(data).entries[e]]
           /\ Flat(data) = [entries |-> Flat(data).entries, rest |-> data.rest]
           /\ Flat(data) \in [entries : [Profiles \X Keys -> Values \cup {Absent}], rest : Rest]
<1>1. \A q \in Profiles, k \in Keys : Flat(data).entries[<<q, k>>] = Entries(TableOf(data, q))[k]
  BY DEF Flat, Entries
<1>2. \A q \in Profiles, k \in Keys : Entries(TableOf(data, q))[k] \in Values \cup {Absent}
  BY Tables, TableIsFunction DEF Entries
<1>3. /\ Flat(data).entries = [e \in Profiles \X Keys |-> Flat(data).entries[e]]
      /\ Flat(data) = [entries |-> Flat(data).entries, rest |-> data.rest]
  BY DEF Flat
<1>4. \A e \in Profiles \X Keys : Flat(data).entries[e] \in Values \cup {Absent}
  BY <1>1, <1>2
<1>5. data.rest \in Rest /\ Flat(data).rest = data.rest
  BY Tables DEF Flat
<1>6. Flat(data).entries \in [Profiles \X Keys -> Values \cup {Absent}]
  BY <1>3, <1>4
<1>7. Flat(data) \in [entries : [Profiles \X Keys -> Values \cup {Absent}], rest : Rest]
  BY <1>3, <1>5, <1>6
<1> QED
  BY <1>1, <1>2, <1>3, <1>5, <1>7

(***************************************************************************)
(* What set and unset do to the tables is what they mean.                  *)
(***************************************************************************)
LEMMA OneTableChanged ==
    ASSUME NEW data \in Data, NEW new \in Data, NEW p \in Profiles, NEW k \in Keys,
           NEW v \in Values \cup {Absent},
           new.rest = data.rest,
           \A q \in Profiles \ {p} : TableOf(new, q) = TableOf(data, q),
           \A j \in Keys : Entries(TableOf(new, p))[j] =
                              IF j = k THEN v ELSE Entries(TableOf(data, p))[j]
    PROVE  Flat(new) = [Flat(data) EXCEPT !.entries[<<p, k>>] = v]
<1>1. \A q \in Profiles, j \in Keys :
          Flat(new).entries[<<q, j>>] =
             IF <<q, j>> = <<p, k>> THEN v ELSE Flat(data).entries[<<q, j>>]
  <2> SUFFICES ASSUME NEW q \in Profiles, NEW j \in Keys
               PROVE  Flat(new).entries[<<q, j>>] =
                        IF <<q, j>> = <<p, k>> THEN v ELSE Flat(data).entries[<<q, j>>]
    OBVIOUS
  <2>1. Flat(new).entries[<<q, j>>] = Entries(TableOf(new, q))[j]
    BY FlatIsByTable
  <2>2. Flat(data).entries[<<q, j>>] = Entries(TableOf(data, q))[j]
    BY FlatIsByTable
  <2> QED
    BY <2>1, <2>2
<1>2. Flat(new).entries = [Flat(data).entries EXCEPT ![<<p, k>>] = v]
  <2>1. Flat(new).entries = [e \in Profiles \X Keys |-> Flat(new).entries[e]]
    BY FlatIsByTable
  <2>2. Flat(data).entries = [e \in Profiles \X Keys |-> Flat(data).entries[e]]
    BY FlatIsByTable
  <2>3. \A e \in Profiles \X Keys :
            Flat(new).entries[e] = IF e = <<p, k>> THEN v ELSE Flat(data).entries[e]
    BY <1>1
  <2> QED
    BY <2>1, <2>2, <2>3
<1>3. Flat(new) = [entries |-> Flat(new).entries, rest |-> data.rest]
  BY FlatIsByTable
<1>4. Flat(data) = [entries |-> Flat(data).entries, rest |-> data.rest]
  BY FlatIsByTable
<1> QED
  BY <1>2, <1>3, <1>4

LEMMA SetMeans ==
    ASSUME NEW data \in Data, NEW p \in Profiles, NEW k \in Keys, NEW v \in Values
    PROVE  /\ SetIn(data, p, k, v) \in Data
           /\ Flat(SetIn(data, p, k, v)) = [Flat(data) EXCEPT !.entries[<<p, k>>] = v]
<1> DEFINE old == TableOf(data, p)
           new == [j \in DOMAIN old \cup {k} |-> IF j = k THEN v ELSE old[j]]
           P == DOMAIN data.profiles \cup {p}
           f == [q \in P |-> IF q = p THEN new ELSE data.profiles[q]]
<1>1. old \in Table
  BY Tables
<1>2. new \in Table
  <2>1. DOMAIN old \subseteq Keys /\ \A j \in DOMAIN old : old[j] \in Values
    BY <1>1, TableIsFunction
  <2>2. new \in [DOMAIN old \cup {k} -> Values]
    BY <2>1
  <2> QED
    BY <2>1, <2>2 DEF Table
<1>3. P \in SUBSET Profiles
  BY Tables
<1>4. f \in [P -> Table]
  BY <1>2, Tables
<1>5. SetIn(data, p, k, v) = [data EXCEPT !.profiles = f]
  BY DEF SetIn
<1> HIDE DEF P, f
<1>6. /\ SetIn(data, p, k, v) \in Data
      /\ SetIn(data, p, k, v).profiles = f
      /\ SetIn(data, p, k, v).rest = data.rest
  BY <1>3, <1>4, <1>5, NewData
<1>7. TableOf(SetIn(data, p, k, v), p) = new
  BY <1>6 DEF TableOf, P, f
<1>8. \A q \in Profiles \ {p} : TableOf(SetIn(data, p, k, v), q) = TableOf(data, q)
  BY <1>6 DEF TableOf, P, f
<1>9. \A j \in Keys : Entries(new)[j] = IF j = k THEN v ELSE Entries(old)[j]
  BY DEF Entries
<1> HIDE DEF old, new
<1>10. \A j \in Keys : Entries(TableOf(SetIn(data, p, k, v), p))[j] =
                         IF j = k THEN v ELSE Entries(TableOf(data, p))[j]
  BY <1>7, <1>9 DEF old
<1> QED
  BY <1>6, <1>8, <1>10, OneTableChanged

LEMMA UnsetMeans ==
    ASSUME NEW data \in Data, NEW p \in Profiles, NEW k \in Keys
    PROVE  /\ UnsetIn(data, p, k) \in Data
           /\ Flat(UnsetIn(data, p, k)) = [Flat(data) EXCEPT !.entries[<<p, k>>] = Absent]
<1> DEFINE old == TableOf(data, p)
           new == [j \in DOMAIN old \ {k} |-> old[j]]
           P == IF DOMAIN new = {} THEN DOMAIN data.profiles \ {p} ELSE DOMAIN data.profiles
           f == [q \in P |-> IF q = p THEN new ELSE data.profiles[q]]
<1>1. old \in Table
  BY Tables
<1>2. new \in Table
  <2>1. DOMAIN old \subseteq Keys /\ \A j \in DOMAIN old : old[j] \in Values
    BY <1>1, TableIsFunction
  <2>2. new \in [DOMAIN old \ {k} -> Values]
    BY <2>1
  <2> QED
    BY <2>1, <2>2 DEF Table
<1>3. P \in SUBSET Profiles
  BY Tables
<1>4. f \in [P -> Table]
  BY <1>2, Tables
<1>5. UnsetIn(data, p, k) = [data EXCEPT !.profiles = f]
  BY DEF UnsetIn
<1> HIDE DEF P, f
<1>6. /\ UnsetIn(data, p, k) \in Data
      /\ UnsetIn(data, p, k).profiles = f
      /\ UnsetIn(data, p, k).rest = data.rest
  BY <1>3, <1>4, <1>5, NewData
<1>7. \A j \in Keys : Entries(TableOf(UnsetIn(data, p, k), p))[j] = Entries(new)[j]
  <2>1. CASE p \in P
    BY <1>6, <2>1 DEF TableOf, f
  <2>2. CASE p \notin P
    <3>1. DOMAIN new = {}
      <4>1. CASE p \in DOMAIN data.profiles
        BY <2>2, <4>1 DEF P
      <4>2. CASE p \notin DOMAIN data.profiles
        BY <4>2, EmptyFunction DEF TableOf
      <4> QED
        BY <4>1, <4>2
    <3>2. TableOf(UnsetIn(data, p, k), p) = <<>>
      BY <1>6, <2>2 DEF TableOf, f
    <3> QED
      BY <3>1, <3>2, EmptyFunction DEF Entries
  <2> QED
    BY <2>1, <2>2
<1>8. \A q \in Profiles \ {p} : TableOf(UnsetIn(data, p, k), q) = TableOf(data, q)
  BY <1>6 DEF TableOf, P, f
<1>9. \A j \in Keys : Entries(new)[j] = IF j = k THEN Absent ELSE Entries(old)[j]
  BY DEF Entries
<1> HIDE DEF old, new
<1>10. \A j \in Keys : Entries(TableOf(UnsetIn(data, p, k), p))[j] =
                         IF j = k THEN Absent ELSE Entries(TableOf(data, p))[j]
  BY <1>7, <1>9 DEF old
<1> QED
  BY <1>6, <1>8, <1>10, OneTableChanged

LEMMA ChangedMeans ==
    ASSUME NEW data \in Data, NEW c \in Command, IsWriter(c)
    PROVE  /\ Changed(data, c) \in Data
           /\ Flat(Changed(data, c)) = Meant(Flat(data), c)
<1>1. CASE c.kind = "set"
  <2>1. PICK p \in Profiles, k \in Keys, v \in Values :
            p = c.profile /\ k = c.key /\ v = c.value
    BY <1>1 DEF Command
  <2>2. Changed(data, c) = SetIn(data, p, k, v)
    BY <1>1, <2>1 DEF Changed
  <2>3. Meant(Flat(data), c) = [Flat(data) EXCEPT !.entries[<<p, k>>] = v]
    BY <1>1, <2>1 DEF Meant
  <2>4. /\ SetIn(data, p, k, v) \in Data
        /\ Flat(SetIn(data, p, k, v)) = [Flat(data) EXCEPT !.entries[<<p, k>>] = v]
    BY SetMeans
  <2> QED
    BY <2>2, <2>3, <2>4, Zenon
<1>2. CASE c.kind = "unset"
  <2>1. c.profile \in Profiles /\ c.key \in Keys
    BY <1>2 DEF Command
  <2>2. Changed(data, c) = UnsetIn(data, c.profile, c.key)
    BY <1>2 DEF Changed
  <2>3. Meant(Flat(data), c) = [Flat(data) EXCEPT !.entries[<<c.profile, c.key>>] = Absent]
    BY <1>2 DEF Meant
  <2>4. /\ UnsetIn(data, c.profile, c.key) \in Data
        /\ Flat(UnsetIn(data, c.profile, c.key)) = [Flat(data) EXCEPT !.entries[<<c.profile, c.key>>] = Absent]
    BY <2>1, UnsetMeans, Zenon
  <2> QED
    BY <2>2, <2>3, <2>4, Zenon
<1> QED
  BY <1>1, <1>2 DEF IsWriter

LEMMA MeantIsTyped ==
    ASSUME NEW c \in Command, IsWriter(c),
           NEW old \in [entries : [Profiles \X Keys -> Values \cup {Absent}], rest : Rest]
    PROVE  Meant(old, c) \in [entries : [Profiles \X Keys -> Values \cup {Absent}], rest : Rest]
<1>1. PICK p \in Profiles, k \in Keys : p = c.profile /\ k = c.key
  BY DEF IsWriter, Command
<1>2. PICK v \in Values \cup {Absent} : v = IF c.kind = "set" THEN c.value ELSE Absent
  BY DEF Command
<1>3. Meant(old, c) = [old EXCEPT !.entries[<<p, k>>] = v]
  BY <1>1, <1>2 DEF Meant
<1> QED
  BY <1>3

-----------------------------------------------------------------------------
(***************************************************************************)
(* The strengthening.  Quiet: without a race one process at most is at     *)
(* work, what it has in memory is what its command means, and the file is  *)
(* empty while it writes.  Owned: until a garbled file has been read, every *)
(* value in a file or in memory is of the original, or one that a command  *)
(* in force has set.                                                       *)
(***************************************************************************)
Held == IF file.kind = "text" THEN file.data ELSE NoData

Quiet ==
    ~raced =>
        /\ \A p, q \in Processes : AtWork(p) /\ AtWork(q) => p = q
        /\ \A p \in Processes : AtWork(p) => Flat(view[p]) = Meant(contents, command[p])
        /\ \A p \in Processes : pc[p] = "writing" => file = Empty
        /\ file.kind # "garbled"
        /\ (\A p \in Processes : pc[p] # "writing") => Flat(Held) = contents

HonestData(data) == \A e \in Profiles \X Keys : Honest(e, Flat(data).entries[e])

FileOwned == file.kind # "absent" => HonestData(file.data)

ViewsOwned == \A p \in Processes : HonestData(view[p])

ResultOwned(p) ==
    pc[p] = "done" /\ command[p].kind = "get" =>
        Honest(<<command[p].profile, command[p].key>>, result[p])

Owned == ~torn => FileOwned /\ ViewsOwned /\ \A p \in Processes : ResultOwned(p)

Asked ==
    /\ result = [p \in Processes |-> result[p]]
    /\ \A p \in Processes : pc[p] = "idle" <=> command[p] = Nothing
    /\ \A p \in Processes : AtWork(p) => IsWriter(command[p])

IInv == TypeOK /\ Asked /\ Quiet /\ Owned

LEMMA JoinedIsData ==
    ASSUME NEW data \in Data, NEW end \in Data
    PROVE  Joined(data, end) \in Data
<1> DEFINE P == DOMAIN data.profiles \cup DOMAIN end.profiles
           both(t, u) == [k \in DOMAIN t \cup DOMAIN u |-> IF k \in DOMAIN t THEN t[k] ELSE u[k]]
           f == [q \in P |-> both(TableOf(data, q), TableOf(end, q))]
           r == IF data.rest = "nothing" THEN end.rest ELSE data.rest
<1>1. P \in SUBSET Profiles /\ r \in Rest
  BY Tables
<1>2. ASSUME NEW q \in P
      PROVE  both(TableOf(data, q), TableOf(end, q)) \in Table
  <2>1. PICK t \in Table, u \in Table : t = TableOf(data, q) /\ u = TableOf(end, q)
    BY <1>1, Tables
  <2>2. /\ DOMAIN t \subseteq Keys /\ \A k \in DOMAIN t : t[k] \in Values
        /\ DOMAIN u \subseteq Keys /\ \A k \in DOMAIN u : u[k] \in Values
    BY TableIsFunction
  <2>3. both(t, u) \in [DOMAIN t \cup DOMAIN u -> Values]
    BY <2>2
  <2>4. DOMAIN t \cup DOMAIN u \in SUBSET Keys
    BY <2>2
  <2> HIDE DEF both
  <2>5. both(t, u) \in Table
    BY <2>3, <2>4 DEF Table
  <2> QED
    BY <2>1, <2>5
<1> HIDE DEF both
<1>3. f \in [P -> Table]
  BY <1>2
<1>4. Joined(data, end) = [profiles |-> f, rest |-> r]
  BY DEF Joined, both
<1> HIDE DEF P, f, r
<1> QED
  BY <1>1, <1>3, <1>4 DEF Data

LEMMA ReadingsAreData ==
    ASSUME TypeOK, NEW data \in Readings
    PROVE  /\ data \in Data
           /\ file.kind # "garbled" => data = Held
<1>1. CASE file = NoFile
  BY <1>1, NoDataIsData DEF Readings, NoFile, Held
<1>2. CASE file \in Text
  BY <1>2 DEF Readings, Text, Held
<1>3. CASE file \in Garbled
  <2>1. file.kind = "garbled" /\ file.data \in Data
    BY <1>3 DEF Garbled
  <2>2. PICK end \in Ends : data = Joined(file.data, end)
    BY <2>1 DEF Readings
  <2>3. end \in Data
    BY InputsAssumption
  <2> QED
    BY <2>1, <2>2, <2>3, JoinedIsData
<1> QED
  BY <1>1, <1>2, <1>3 DEF TypeOK

LEMMA ReadingsAreHonest ==
    ASSUME TypeOK, FileOwned, file.kind # "garbled", NEW data \in Readings
    PROVE  HonestData(data)
<1>1. CASE file = NoFile
  BY <1>1, NoDataIsData DEF Readings, NoFile, HonestData, Honest
<1>2. CASE file \in Text
  BY <1>2 DEF Readings, Text, FileOwned
<1> QED
  BY <1>1, <1>2 DEF TypeOK, Garbled

LEMMA InitIInv == Init => IInv
<1> SUFFICES ASSUME Init PROVE IInv
  OBVIOUS
<1>1. file \in Text \cup {NoFile} /\ file.kind # "garbled"
  <2>1. file \in Text \cup {NoFile}
    BY InputsAssumption DEF Init
  <2>2. file \in Text => file.kind = "text"
    BY DEF Text
  <2>3. file = NoFile => file.kind = "absent"
    BY DEF NoFile
  <2> QED
    BY <2>1, <2>2, <2>3
<1>2. Held \in Data
  <2>1. file \in Text => file.data \in Data
    BY DEF Text
  <2>2. file = NoFile => file.kind # "text"
    BY DEF NoFile
  <2> QED
    BY <1>1, <2>1, <2>2, NoDataIsData DEF Held
<1>3. original = Flat(Held) /\ contents = original /\ raced = FALSE
  BY DEF Init, Held
<1>4. {original, contents} \subseteq [entries : [Profiles \X Keys -> Values \cup {Absent}], rest : Rest]
  BY <1>2, <1>3, FlatIsByTable
<1>5. TypeOK
  BY <1>1, <1>3, <1>4, NoDataIsData DEF Init, TypeOK
<1>6. Asked
  BY DEF Init, Asked, AtWork
<1>7. Quiet
  BY <1>1, <1>3 DEF Init, Quiet, AtWork
<1>8. Owned
  <2>1. HonestData(Held)
    BY <1>3 DEF HonestData, Honest
  <2>2. HonestData(NoData)
    BY NoDataIsData DEF HonestData, Honest
  <2>3. file.kind = "text" \/ file.kind = "absent"
    BY <1>1 DEF Text, NoFile
  <2> QED
    BY <2>1, <2>2, <2>3 DEF Init, Owned, FileOwned, ViewsOwned, ResultOwned, Held
<1> QED
  BY <1>5, <1>6, <1>7, <1>8 DEF IInv

LEMMA TypeStep ==
    ASSUME TypeOK, Asked, [Next]_vars
    PROVE  TypeOK' /\ Asked'
<1> USE DEF TypeOK, Asked, Go
<1>1. CASE \E p \in Processes : Begin(p)
  <2>1. PICK p \in Processes : Begin(p)
    BY <1>1
  <2>2. PICK c \in Commands :
            /\ command' = [command EXCEPT ![p] = c]
            /\ Go(p, IF c.kind = "set" /\ c.key \notin Settings THEN "rejected" ELSE "reading")
    BY <2>1 DEF Begin
  <2>3. c \in Command /\ c # Nothing
    BY InputsAssumption DEF Command, Nothing
  <2> QED
    BY <2>1, <2>2, <2>3 DEF Begin, AtWork
<1>2. CASE \E p \in Processes : Answers(p)
  BY <1>2 DEF Answers, AtWork
<1>3. CASE \E p \in Processes : Reads(p)
  <2>1. PICK p \in Processes : Reads(p)
    BY <1>3
  <2>2. PICK data \in Readings : view' = [view EXCEPT ![p] = Changed(data, command[p])]
    BY <2>1 DEF Reads
  <2>3. command[p] \in Command
    BY <2>1 DEF Reads
  <2>4. Changed(data, command[p]) \in Data
    BY <2>1, <2>3, ReadingsAreData, ChangedMeans DEF Reads
  <2> QED
    BY <2>1, <2>2, <2>4 DEF Reads, AtWork
<1>4. CASE \E p \in Processes : ReadFails(p) \/ Renders(p) \/ Dies(p)
  BY <1>4 DEF ReadFails, Renders, Dies, AtWork
<1>5. CASE \E p \in Processes : Opens(p)
  BY <1>5, NoDataIsData DEF Opens, AtWork, Empty, Text
<1>6. CASE \E p \in Processes : Writes(p)
  <2>1. PICK p \in Processes : Writes(p)
    BY <1>6
  <2>2. command[p] \in Command /\ IsWriter(command[p])
    BY <2>1 DEF Writes, AtWork, IsWriter, Nothing
  <2>3. contents' \in [entries : [Profiles \X Keys -> Values \cup {Absent}], rest : Rest]
    BY <2>1, <2>2, MeantIsTyped DEF Writes
  <2>4. file' \in Text \cup {NoFile} \cup Garbled
    <3>1. view[p] \in Data
      OBVIOUS
    <3>2. CASE file' = [kind |-> "text", data |-> view[p], dumped |-> TRUE]
      BY <3>1, <3>2 DEF Text
    <3>3. CASE file' = [kind |-> "garbled", data |-> view[p]]
      BY <3>1, <3>3 DEF Garbled
    <3>4. CASE UNCHANGED file
      BY <3>4
    <3> QED
      BY <2>1, <3>2, <3>3, <3>4 DEF Writes
  <2> QED
    BY <2>1, <2>3, <2>4 DEF Writes, AtWork
<1>7. CASE UNCHANGED vars
  BY <1>7 DEF vars, AtWork
<1> QED
  BY <1>1, <1>2, <1>3, <1>4, <1>5, <1>6, <1>7 DEF Next

LEMMA QuietStep ==
    ASSUME TypeOK, Asked, Quiet, [Next]_vars
    PROVE  Quiet'
<1> SUFFICES ASSUME ~raced'
             PROVE  Quiet'
  BY DEF Quiet
<1>1. ~raced
  BY DEF Next, vars, Begin, Answers, Reads, ReadFails, Renders, Opens, Writes, Dies
<1>2. /\ \A p, q \in Processes : AtWork(p) /\ AtWork(q) => p = q
      /\ \A p \in Processes : AtWork(p) => Flat(view[p]) = Meant(contents, command[p])
      /\ \A p \in Processes : pc[p] = "writing" => file = Empty
      /\ file.kind # "garbled"
      /\ (\A p \in Processes : pc[p] # "writing") => Flat(Held) = contents
  BY <1>1 DEF Quiet
<1>3. pc \in [Processes -> {"idle", "reading", "rendering", "opening", "writing",
                            "done", "rejected", "dead"}]
  BY DEF TypeOK
<1>4. CASE \E p \in Processes : Begin(p) \/ Answers(p) \/ ReadFails(p) \/ Renders(p)
  <2>1. PICK p \in Processes : Begin(p) \/ Answers(p) \/ ReadFails(p) \/ Renders(p)
    BY <1>4
  <2>2. UNCHANGED <<file, view, contents>>
    BY <2>1 DEF Begin, Answers, ReadFails, Renders
  <2>3. \A q \in Processes : (pc'[q] = "writing" <=> pc[q] = "writing") /\ (AtWork(q)' => AtWork(q))
    BY <1>3, <2>1 DEF Begin, Answers, ReadFails, Renders, Go, AtWork
  <2>4. \A q \in Processes : AtWork(q) => command'[q] = command[q]
    BY <2>1 DEF Begin, Answers, ReadFails, Renders, Go, AtWork, TypeOK
  <2>5. Held' = Held
    BY <2>2 DEF Held
  <2>6. \A q \in Processes : AtWork(q)' => Flat(view[q])' = Meant(contents, command[q])'
    <3>1. \A q \in Processes : Flat(view[q])' = Flat(view[q])
      BY <2>2 DEF Flat
    <3>2. \A q \in Processes : command'[q] = command[q] =>
              Meant(contents, command[q])' = Meant(contents, command[q])
      BY <2>2 DEF Meant
    <3> QED
      BY <1>2, <2>2, <2>3, <2>4, <3>1, <3>2
  <2>7. Flat(Held)' = Flat(Held)
    BY <2>5 DEF Flat
  <2> QED
    BY <1>2, <2>2, <2>3, <2>6, <2>7 DEF Quiet
<1>5. CASE \E p \in Processes : Dies(p)
  <2>1. PICK p \in Processes : Dies(p)
    BY <1>5
  <2>2. UNCHANGED <<file, view, contents, command>> /\ pc[p] # "writing"
    BY <2>1 DEF Dies
  <2>3. \A q \in Processes : (pc'[q] = "writing" <=> pc[q] = "writing") /\ (AtWork(q)' => AtWork(q))
    BY <1>3, <2>1, <2>2 DEF Dies, Go, AtWork
  <2>4. Held' = Held
    BY <2>2 DEF Held
  <2>5. \A q \in Processes : AtWork(q)' => Flat(view[q])' = Meant(contents, command[q])'
    <3>1. \A q \in Processes : Flat(view[q])' = Flat(view[q])
      BY <2>2 DEF Flat
    <3>2. \A q \in Processes : command'[q] = command[q] =>
              Meant(contents, command[q])' = Meant(contents, command[q])
      BY <2>2 DEF Meant
    <3> QED
      BY <1>2, <2>2, <2>3, <3>1, <3>2
  <2>6. Flat(Held)' = Flat(Held)
    BY <2>4 DEF Flat
  <2> QED
    BY <1>2, <2>2, <2>3, <2>5, <2>6 DEF Quiet
<1>6. CASE \E p \in Processes : Reads(p)
  <2>1. PICK p \in Processes : Reads(p)
    BY <1>6
  <2>2. UNCHANGED <<file, contents, command>> /\ pc[p] = "reading"
    BY <2>1 DEF Reads
  <2>3. \A q \in Processes : ~AtWork(q)
    BY <2>1, <2>2 DEF Reads, AtWork
  <2>4. PICK data \in Readings : view' = [view EXCEPT ![p] = Changed(data, command[p])]
    BY <2>1 DEF Reads
  <2>5. data \in Data /\ Flat(data) = contents
    BY <1>2, <2>3, <2>4, ReadingsAreData DEF AtWork
  <2>6. command[p] \in Command /\ IsWriter(command[p])
    BY <2>1, <2>2 DEF Reads, TypeOK, Asked
  <2>7. Flat(Changed(data, command[p])) = Meant(contents, command[p])
    BY <2>5, <2>6, ChangedMeans
  <2>8. view'[p] = Changed(data, command[p])
    BY <2>4 DEF TypeOK
  <2>9. \A q \in Processes : pc'[q] # "writing" /\ (AtWork(q)' => q = p)
    BY <1>3, <2>1, <2>3 DEF Reads, Go, AtWork
  <2>10. Flat(view[p])' = Flat(Changed(data, command[p]))
    BY <2>8 DEF Flat
  <2>11. \A q \in Processes : AtWork(q)' => Flat(view[q])' = Meant(contents, command[q])'
    BY <2>2, <2>7, <2>9, <2>10 DEF Meant
  <2>12. Flat(Held)' = Flat(Held)
    BY <2>2 DEF Held, Flat
  <2> QED
    BY <1>2, <2>2, <2>3, <2>9, <2>11, <2>12 DEF Quiet, AtWork
<1>7. CASE \E p \in Processes : Opens(p)
  <2>1. PICK p \in Processes : Opens(p)
    BY <1>7
  <2>2. UNCHANGED <<view, contents, command>> /\ file' = Empty /\ AtWork(p) /\ pc'[p] = "writing"
    BY <1>3, <2>1 DEF Opens, AtWork, Go
  <2>3. \A q \in Processes : AtWork(q)' => AtWork(q)
    BY <1>3, <2>1, <2>2 DEF Opens, AtWork, Go
  <2>4. \A q \in Processes : AtWork(q)' => Flat(view[q])' = Meant(contents, command[q])'
    <3>1. \A q \in Processes : Flat(view[q])' = Flat(view[q])
      BY <2>2 DEF Flat
    <3>2. \A q \in Processes : command'[q] = command[q] =>
              Meant(contents, command[q])' = Meant(contents, command[q])
      BY <2>2 DEF Meant
    <3> QED
      BY <1>2, <2>2, <2>3, <3>1, <3>2
  <2> QED
    BY <1>2, <2>2, <2>3, <2>4 DEF Quiet, Empty
<1>8. CASE \E p \in Processes : Writes(p)
  <2>1. PICK p \in Processes : Writes(p)
    BY <1>8
  <2>2. AtWork(p) /\ file = Empty
    BY <1>2, <2>1 DEF Writes, AtWork
  <2>3. file' = [kind |-> "text", data |-> view[p], dumped |-> TRUE]
    BY <2>1, <2>2 DEF Writes, Empty
  <2>4. \A q \in Processes : ~AtWork(q)' /\ pc'[q] # "writing"
    BY <1>2, <1>3, <2>1, <2>2 DEF Writes, Go, AtWork
  <2>5. Held' = view[p] /\ file'.kind # "garbled"
    BY <2>3 DEF Held
  <2>6. Flat(Held)' = Flat(view[p])
    BY <2>5 DEF Flat
  <2>7. contents' = Meant(contents, command[p])
    BY <2>1 DEF Writes
  <2> QED
    BY <1>2, <2>2, <2>4, <2>5, <2>6, <2>7 DEF Quiet
<1>9. CASE UNCHANGED vars
  <2>1. Flat(Held)' = Flat(Held)
    BY <1>9 DEF vars, Held, Flat
  <2>2. \A q \in Processes : AtWork(q)' = AtWork(q) /\ Flat(view[q])' = Flat(view[q])
                            /\ Meant(contents, command[q])' = Meant(contents, command[q])
    BY <1>9 DEF vars, AtWork, Flat, Meant
  <2> QED
    BY <1>2, <1>9, <2>1, <2>2 DEF vars, Quiet
<1> QED
  BY <1>4, <1>5, <1>6, <1>7, <1>8, <1>9 DEF Next

\* A command that is in force stays in force.
LEMMA CommandsStay ==
    ASSUME Asked, [Next]_vars
    PROVE  /\ original' = original
           /\ \A p \in Processes : command[p].kind = "set" => command'[p] = command[p]
<1>1. original' = original
  BY DEF Next, vars, Begin, Answers, Reads, ReadFails, Renders, Opens, Writes, Dies
<1>2. \A p \in Processes : command[p].kind = "set" => pc[p] # "idle"
  BY DEF Asked, Nothing
<1>3. CASE \E p \in Processes : Begin(p)
  BY <1>1, <1>2, <1>3 DEF Begin
<1>4. CASE UNCHANGED command
  BY <1>1, <1>4
<1> QED
  BY <1>3, <1>4 DEF Next, vars, Answers, Reads, ReadFails, Renders, Opens, Writes, Dies

LEMMA StaysHonest ==
    ASSUME Asked, [Next]_vars, NEW e, NEW v, Honest(e, v)
    PROVE  Honest(e, v)'
<1>1. CASE v \in {Absent, original.entries[e]}
  BY <1>1, CommandsStay DEF Honest
<1>2. CASE \E p \in Processes :
              command[p] = [kind |-> "set", profile |-> e[1], key |-> e[2], value |-> v]
  <2>1. PICK p \in Processes :
            command[p] = [kind |-> "set", profile |-> e[1], key |-> e[2], value |-> v]
    BY <1>2
  <2>2. command'[p] = command[p]
    BY <2>1, CommandsStay
  <2> QED
    BY <2>1, <2>2 DEF Honest
<1> QED
  BY <1>1, <1>2 DEF Honest

LEMMA StaysHonestData ==
    ASSUME Asked, [Next]_vars, NEW d, HonestData(d)
    PROVE  HonestData(d)'
<1>1. \A e \in Profiles \X Keys : Honest(e, Flat(d).entries[e])
  BY DEF HonestData
<1>2. \A e \in Profiles \X Keys : Honest(e, Flat(d).entries[e])'
  BY <1>1, StaysHonest
<1> QED
  BY <1>2 DEF HonestData

\* What set puts into the data is honest, and unset puts nothing into it.
LEMMA ChangedIsHonest ==
    ASSUME TypeOK, NEW p \in Processes, command[p] \in Command, IsWriter(command[p]),
           NEW d \in Data, HonestData(d)
    PROVE  HonestData(Changed(d, command[p]))
<1>1. Flat(Changed(d, command[p])) = Meant(Flat(d), command[p])
  BY ChangedMeans
<1>2. PICK q \in Profiles, k \in Keys : q = command[p].profile /\ k = command[p].key
  BY DEF IsWriter, Command
<1>3. PICK v : v = IF command[p].kind = "set" THEN command[p].value ELSE Absent
  OBVIOUS
<1>4. Honest(<<q, k>>, v)
  <2>1. CASE command[p].kind = "set"
    <3>1. command[p] = [kind |-> "set", profile |-> q, key |-> k, value |-> v]
      BY <1>2, <1>3, <2>1 DEF Command
    <3> QED
      BY <3>1 DEF Honest
  <2>2. CASE command[p].kind # "set"
    BY <1>3, <2>2 DEF Honest
  <2> QED
    BY <2>1, <2>2
<1>5. Flat(Changed(d, command[p])).entries = [Flat(d).entries EXCEPT ![<<q, k>>] = v]
  BY <1>1, <1>2, <1>3, FlatIsByTable DEF Meant
<1>6. \A e \in Profiles \X Keys :
          Flat(Changed(d, command[p])).entries[e] = IF e = <<q, k>> THEN v ELSE Flat(d).entries[e]
  <2>1. Flat(d).entries = [e \in Profiles \X Keys |-> Flat(d).entries[e]]
    BY FlatIsByTable
  <2> QED
    BY <1>5, <2>1
<1> QED
  BY <1>4, <1>6 DEF HonestData

LEMMA OwnedStep ==
    ASSUME TypeOK, Asked, Owned, [Next]_vars
    PROVE  Owned'
<1> SUFFICES ASSUME ~torn'
             PROVE  Owned'
  BY DEF Owned
<1>0. ~torn /\ FileOwned /\ ViewsOwned /\ \A p \in Processes : ResultOwned(p)
  <2>1. ~torn
    BY DEF Next, vars, Begin, Answers, Reads, ReadFails, Renders, Opens, Writes, Dies
  <2> QED
    BY <2>1 DEF Owned
<1>1. \A d : HonestData(d) => HonestData(d)'
  BY StaysHonestData
<1>2. file' = file => FileOwned'
  <2> SUFFICES ASSUME file' = file PROVE FileOwned'
    OBVIOUS
  <2>1. PICK d : d = file.data
    OBVIOUS
  <2>2. file.kind # "absent" => HonestData(d)'
    BY <1>0, <1>1, <2>1 DEF FileOwned
  <2> QED
    BY <2>1, <2>2 DEF HonestData, Honest, FileOwned
<1>3. \A p \in Processes : view'[p] = view[p] => HonestData(view[p])'
  <2> SUFFICES ASSUME NEW p \in Processes, view'[p] = view[p] PROVE HonestData(view[p])'
    OBVIOUS
  <2>1. PICK d : d = view[p]
    OBVIOUS
  <2>2. HonestData(d)'
    BY <1>0, <1>1, <2>1 DEF ViewsOwned
  <2> QED
    BY <2>1, <2>2 DEF HonestData, Honest
<1>4. \A p \in Processes :
          pc[p] = "done" /\ UNCHANGED <<command[p], result[p]>> => ResultOwned(p)'
  <2> SUFFICES ASSUME NEW p \in Processes, pc[p] = "done", UNCHANGED <<command[p], result[p]>>,
                      command[p].kind = "get"
               PROVE  Honest(<<command[p].profile, command[p].key>>, result[p])'
    BY DEF ResultOwned
  <2>1. PICK e, v : e = <<command[p].profile, command[p].key>> /\ v = result[p]
    OBVIOUS
  <2>2. Honest(e, v)'
    BY <1>0, <2>1, StaysHonest DEF ResultOwned
  <2> QED
    BY <2>1, <2>2 DEF Honest
<1>5. CASE \E p \in Processes : Begin(p) \/ ReadFails(p) \/ Renders(p) \/ Dies(p)
  <2>1. PICK p \in Processes : Begin(p) \/ ReadFails(p) \/ Renders(p) \/ Dies(p)
    BY <1>5
  <2>2. UNCHANGED <<file, view, result>>
    BY <2>1 DEF Begin, ReadFails, Renders, Dies
  <2>3. \A q \in Processes : pc'[q] = "done" => pc[q] = "done" /\ command'[q] = command[q]
    BY <2>1 DEF Begin, ReadFails, Renders, Dies, Go, TypeOK
  <2>4. \A q \in Processes : ResultOwned(q)'
    BY <1>4, <2>2, <2>3 DEF ResultOwned
  <2> QED
    BY <1>2, <1>3, <2>2, <2>4 DEF Owned, ViewsOwned
<1>6. CASE \E p \in Processes : Answers(p)
  <2>1. PICK p \in Processes : Answers(p)
    BY <1>6
  <2>2. UNCHANGED <<file, view, command>> /\ pc[p] = "reading"
    BY <2>1 DEF Answers
  <2>3. \A q \in Processes \ {p} : pc'[q] = pc[q] /\ result'[q] = result[q]
    BY <2>1 DEF Answers, Go, TypeOK, Asked
  <2>4. \A q \in Processes \ {p} : ResultOwned(q)'
    BY <1>4, <2>2, <2>3 DEF ResultOwned
  <2>5. ResultOwned(p)'
    <3> SUFFICES ASSUME pc'[p] = "done", command[p].kind = "get"
                 PROVE  Honest(<<command[p].profile, command[p].key>>, result[p])'
      BY <2>2 DEF ResultOwned
    <3>1. PICK data \in Readings : result' = [result EXCEPT ![p] = Answer(data, command[p])]
      BY <2>1 DEF Answers, Go, TypeOK
    <3>2. data \in Data /\ HonestData(data)
      BY <1>0, <2>1, ReadingsAreData, ReadingsAreHonest DEF Reads, Answers
    <3>3. command[p] \in Command
      BY <2>2 DEF TypeOK, Asked
    <3>4. PICK q \in Profiles, k \in Keys : q = command[p].profile /\ k = command[p].key
      BY <3>3 DEF Command
    <3>5. result'[p] = Flat(data).entries[<<q, k>>]
      BY <3>1, <3>4 DEF Answer, ValueOf, Flat, Asked
    <3>6. PICK v : v = Flat(data).entries[<<q, k>>]
      OBVIOUS
    <3>7. Honest(<<q, k>>, v)'
      BY <3>2, <3>6, StaysHonest DEF HonestData
    <3> QED
      BY <2>2, <3>4, <3>5, <3>6, <3>7 DEF Honest
  <2> QED
    BY <1>2, <1>3, <2>2, <2>4, <2>5 DEF Owned, ViewsOwned
<1>7. CASE \E p \in Processes : Reads(p)
  <2>1. PICK p \in Processes : Reads(p)
    BY <1>7
  <2>2. UNCHANGED <<file, command, result>> /\ pc[p] = "reading" /\ IsWriter(command[p])
    BY <2>1 DEF Reads
  <2>3. PICK data \in Readings : view' = [view EXCEPT ![p] = Changed(data, command[p])]
    BY <2>1 DEF Reads
  <2>4. PICK d : d = Changed(data, command[p])
    OBVIOUS
  <2>5. HonestData(d)
    <3>1. data \in Data /\ HonestData(data)
      BY <1>0, <2>1, ReadingsAreData, ReadingsAreHonest DEF Reads, Answers
    <3>2. command[p] \in Command
      BY <2>2 DEF TypeOK, Asked
    <3> QED
      BY <2>2, <2>4, <3>1, <3>2, ChangedIsHonest
  <2>6. view'[p] = d /\ \A q \in Processes \ {p} : view'[q] = view[q]
    BY <2>3, <2>4 DEF TypeOK
  <2>7. HonestData(view[p])'
    BY <1>1, <2>5, <2>6 DEF HonestData, Honest
  <2>8. \A q \in Processes : pc'[q] = "done" => pc[q] = "done"
    BY <2>1 DEF Reads, Go, TypeOK
  <2>9. \A q \in Processes : ResultOwned(q)'
    BY <1>4, <2>2, <2>8 DEF ResultOwned
  <2> QED
    BY <1>2, <1>3, <2>2, <2>6, <2>7, <2>9 DEF Owned, ViewsOwned
<1>8. CASE \E p \in Processes : Opens(p)
  <2>1. PICK p \in Processes : Opens(p)
    BY <1>8
  <2>2. UNCHANGED <<view, command, result>> /\ file' = Empty
    BY <2>1 DEF Opens
  <2>3. HonestData(NoData)'
    BY NoDataIsData DEF HonestData, Honest
  <2>4. FileOwned'
    BY <2>2, <2>3 DEF FileOwned, Empty, HonestData, Honest
  <2>5. \A q \in Processes : pc'[q] = "done" => pc[q] = "done"
    BY <2>1 DEF Opens, Go, TypeOK
  <2>6. \A q \in Processes : ResultOwned(q)'
    BY <1>4, <2>2, <2>5 DEF ResultOwned
  <2> QED
    BY <1>3, <2>2, <2>4, <2>6 DEF Owned, ViewsOwned
<1>9. CASE \E p \in Processes : Writes(p)
  <2>1. PICK p \in Processes : Writes(p)
    BY <1>9
  <2>2. UNCHANGED <<view, command, result>> /\ command[p].kind # "get"
    BY <2>1 DEF Writes, Asked, AtWork, IsWriter
  <2>3. PICK d : d = view[p]
    OBVIOUS
  <2>4. HonestData(d)'
    BY <1>0, <1>1, <2>3 DEF ViewsOwned
  <2>6. FileOwned'
    <3>1. CASE file' = [kind |-> "text", data |-> view[p], dumped |-> TRUE]
      <4>1. file'.data = d
        BY <2>3, <3>1
      <4> QED
        BY <2>4, <4>1 DEF FileOwned, HonestData, Honest
    <3>2. CASE file' = [kind |-> "garbled", data |-> view[p]]
      <4>1. file'.data = d
        BY <2>3, <3>2
      <4> QED
        BY <2>4, <4>1 DEF FileOwned, HonestData, Honest
    <3>3. CASE UNCHANGED file
      BY <1>2, <3>3
    <3> QED
      BY <2>1, <3>1, <3>2, <3>3, Zenon DEF Writes
  <2>7. \A q \in Processes \ {p} : pc'[q] = pc[q]
    BY <2>1 DEF Writes, Go, TypeOK
  <2>8. \A q \in Processes : ResultOwned(q)'
    BY <1>4, <2>2, <2>7 DEF ResultOwned
  <2> QED
    BY <1>3, <2>2, <2>6, <2>8 DEF Owned, ViewsOwned
<1>10. CASE UNCHANGED vars
  <2>1. \A q \in Processes : ResultOwned(q)'
    BY <1>4, <1>10 DEF vars, ResultOwned
  <2> QED
    BY <1>2, <1>3, <1>10, <2>1 DEF vars, Owned, ViewsOwned
<1> QED
  BY <1>5, <1>6, <1>7, <1>8, <1>9, <1>10 DEF Next

LEMMA IInvHolds == Spec => []IInv
<1>1. IInv /\ [Next]_vars => IInv'
  BY TypeStep, QuietStep, OwnedStep DEF IInv
<1> QED
  BY InitIInv, <1>1, PTL DEF Spec

-----------------------------------------------------------------------------

\* Type correctness: the file, what the processes have read of it, and the history variables,
\* for any commands of set, unset, get, list and load.
THEOREM TypeCorrect == Spec => []TypeOK
<1>1. IInv => TypeOK
  BY DEF IInv
<1> QED
  BY <1>1, IInvHolds, PTL

(***************************************************************************)
(* Processes that do not overlap lose nothing, whatever they do and        *)
(* wherever they die before the file is open: set and unset mean what they *)
(* say, and leave the rest of the file alone.                              *)
(***************************************************************************)
THEOREM NoLostUpdate == Spec => []NothingLost
<1>1. IInv => NothingLost
  BY DEF IInv, Quiet, NothingLost, Settled, Held
<1> QED
  BY <1>1, IInvHolds, PTL

(***************************************************************************)
(* Processes that overlap, or die with the file open, may lose settings.   *)
(* Before one of them has read a garbled file without an error they make   *)
(* none up: no text, the front of a garbled one included, and no answer    *)
(* has a value that nobody gave to this key.                               *)
(***************************************************************************)
THEOREM NoInvention == Spec => []NothingInvented
<1>1. IInv => NothingInvented
  BY DEF IInv, NothingInvented, HonestData, Owned, FileOwned, ResultOwned
<1> QED
  BY <1>1, IInvHolds, PTL

-----------------------------------------------------------------------------
(***************************************************************************)
(* Answers.  A table that nobody writes by hand without entries never      *)
(* loses its last one and stays: set gives it one, unset removes it.       *)
(***************************************************************************)
Full(data) == \A p \in DOMAIN data.profiles : DOMAIN data.profiles[p] # {}

NoEmptyTable == \A f \in Files : f.kind = "text" => Full(f.data)

Filled ==
    ~raced =>
        /\ file.kind = "text" => Full(file.data)
        /\ \A p \in Processes : Full(view[p])

LEMMA NoDataIsFull == Full(NoData)
BY EmptyFunction DEF Full, NoData

LEMMA ChangedIsFull ==
    ASSUME NEW data \in Data, Full(data), NEW c \in Command, IsWriter(c)
    PROVE  Full(Changed(data, c))
<1>1. CASE c.kind = "set"
  <2> DEFINE old == TableOf(data, c.profile)
             new == [j \in DOMAIN old \cup {c.key} |-> IF j = c.key THEN c.value ELSE old[j]]
             f == [q \in DOMAIN data.profiles \cup {c.profile} |->
                     IF q = c.profile THEN new ELSE data.profiles[q]]
  <2>1. Changed(data, c) = [data EXCEPT !.profiles = f]
    BY <1>1 DEF Changed, SetIn
  <2>2. DOMAIN new # {}
    OBVIOUS
  <2> HIDE DEF new
  <2>3. \A q \in DOMAIN f : DOMAIN f[q] # {}
    BY <2>2 DEF Full
  <2> HIDE DEF f
  <2>4. Changed(data, c).profiles = f
    BY <2>1 DEF Data
  <2> QED
    BY <2>3, <2>4 DEF Full
<1>2. CASE c.kind = "unset"
  <2> DEFINE old == TableOf(data, c.profile)
             new == [j \in DOMAIN old \ {c.key} |-> old[j]]
             f == IF DOMAIN new = {} THEN [q \in DOMAIN data.profiles \ {c.profile} |-> data.profiles[q]]
                  ELSE [q \in DOMAIN data.profiles |-> IF q = c.profile THEN new ELSE data.profiles[q]]
  <2>1. Changed(data, c) = [data EXCEPT !.profiles = f]
    BY <1>2 DEF Changed, UnsetIn
  <2> HIDE DEF new
  <2>2. \A q \in DOMAIN f : DOMAIN f[q] # {}
    BY DEF Full
  <2> HIDE DEF f
  <2>3. Changed(data, c).profiles = f
    BY <2>1 DEF Data
  <2> QED
    BY <2>2, <2>3 DEF Full
<1> QED
  BY <1>1, <1>2 DEF IsWriter

LEMMA ReadingsAreFull ==
    ASSUME TypeOK, Filled, ~raced, file.kind # "garbled", NEW data \in Readings
    PROVE  Full(data)
<1>1. CASE file = NoFile
  BY <1>1, NoDataIsFull DEF Readings, NoFile
<1>2. CASE file \in Text
  BY <1>2 DEF Readings, Text, Filled
<1> QED
  BY <1>1, <1>2 DEF TypeOK, Garbled

LEMMA InitFilled ==
    ASSUME NoEmptyTable, Init
    PROVE  Filled
BY NoDataIsFull DEF Init, NoEmptyTable, Filled

LEMMA FilledStep ==
    ASSUME IInv, Filled, [Next]_vars
    PROVE  Filled'
<1> SUFFICES ASSUME ~raced'
             PROVE  Filled'
  BY DEF Filled
<1>0. /\ ~raced
      /\ file.kind = "text" => Full(file.data)
      /\ \A p \in Processes : Full(view[p])
  <2>1. ~raced
    BY DEF Next, vars, Begin, Answers, Reads, ReadFails, Renders, Opens, Writes, Dies
  <2> QED
    BY <2>1 DEF Filled
<1>1. CASE \E p \in Processes : Reads(p)
  <2>1. PICK p \in Processes : Reads(p)
    BY <1>1
  <2>2. file' = file /\ pc[p] = "reading" /\ IsWriter(command[p])
    BY <2>1 DEF Reads
  <2>3. PICK data \in Readings : view' = [view EXCEPT ![p] = Changed(data, command[p])]
    BY <2>1 DEF Reads
  <2>4. data \in Data /\ Full(data)
    BY <1>0, <2>3, ReadingsAreData, ReadingsAreFull DEF IInv, Quiet
  <2>5. command[p] \in Command
    BY <2>2 DEF IInv, TypeOK, Asked
  <2>6. Full(Changed(data, command[p]))
    BY <2>2, <2>4, <2>5, ChangedIsFull
  <2>7. \A q \in Processes : view'[q] \in {view[q], Changed(data, command[p])}
    BY <2>3 DEF IInv, TypeOK
  <2>8. \A q \in Processes : Full(view'[q])
    BY <1>0, <2>6, <2>7
  <2> QED
    BY <1>0, <2>2, <2>8 DEF Filled, Full
<1>2. CASE \E p \in Processes : Opens(p)
  <2>1. file' = Empty /\ view' = view
    BY <1>2 DEF Opens
  <2>2. file'.data = NoData
    BY <2>1 DEF Empty
  <2> QED
    BY <1>0, <2>1, <2>2, NoDataIsFull DEF Filled, Full
<1>3. CASE \E p \in Processes : Writes(p)
  <2>1. PICK p \in Processes : Writes(p)
    BY <1>3
  <2>2. view' = view
    BY <2>1 DEF Writes
  <2>3. CASE file'.data = view[p]
    BY <1>0, <2>2, <2>3 DEF Filled, Full
  <2>4. CASE UNCHANGED file
    BY <1>0, <2>2, <2>4 DEF Filled, Full
  <2> QED
    BY <2>1, <2>3, <2>4 DEF Writes
<1>4. CASE UNCHANGED <<file, view>>
  BY <1>0, <1>4 DEF Filled, Full
<1> QED
  BY <1>1, <1>2, <1>3, <1>4 DEF Next, vars, Begin, Answers, ReadFails, Renders, Dies

\* What a table has is what its entries say.
LEMMA TableHas ==
    ASSUME NEW data \in Data, NEW q \in Profiles, NEW k \in Keys
    PROVE  /\ k \in DOMAIN TableOf(data, q) <=> Flat(data).entries[<<q, k>>] # Absent
           /\ k \in DOMAIN TableOf(data, q) => TableOf(data, q)[k] = Flat(data).entries[<<q, k>>]
<1>1. PICK t \in Table : t = TableOf(data, q)
  BY Tables
<1>2. \A j \in DOMAIN t : t[j] \in Values
  BY TableIsFunction
<1>3. Flat(data).entries[<<q, k>>] = IF k \in DOMAIN t THEN t[k] ELSE Absent
  <2>1. Flat(data).entries[<<q, k>>] = Entries(TableOf(data, q))[k]
    BY FlatIsByTable
  <2> QED
    BY <1>1, <2>1 DEF Entries
<1>4. Absent \notin Values
  BY ConfigFileAssumption
<1> QED
  BY <1>1, <1>2, <1>3, <1>4

LEMMA HasTable ==
    ASSUME NEW data \in Data, Full(data), Flat(data) = contents, NEW q \in Profiles
    PROVE  q \in DOMAIN data.profiles <=> HasEntries(q)
<1>1. \A k \in Keys : k \in DOMAIN TableOf(data, q) <=> Entry(q, k) # Absent
  BY TableHas DEF Entry
<1>2. DOMAIN TableOf(data, q) \subseteq Keys
  BY Tables, TableIsFunction
<1>3. HasEntries(q) <=> DOMAIN TableOf(data, q) # {}
  BY <1>1, <1>2 DEF HasEntries
<1>4. q \in DOMAIN data.profiles => DOMAIN TableOf(data, q) # {}
  BY DEF Full, TableOf
<1>5. q \notin DOMAIN data.profiles => DOMAIN TableOf(data, q) = {}
  BY EmptyFunction DEF TableOf
<1> QED
  BY <1>3, <1>4, <1>5

LEMMA UnknownKeys ==
    ASSUME NEW data \in Data, Flat(data) = contents, NEW q \in Profiles
    PROVE  HasUnknownKey(TableOf(data, q)) <=> Entry(q, Unknown) # Absent
<1>1. DOMAIN TableOf(data, q) \subseteq Keys
  BY Tables, TableIsFunction
<1>2. Unknown \in Keys /\ Unknown \notin Settings
  BY ConfigFileAssumption DEF Keys
<1>3. Unknown \in DOMAIN TableOf(data, q) <=> Entry(q, Unknown) # Absent
  BY <1>2, TableHas DEF Entry
<1> QED
  BY <1>1, <1>2, <1>3 DEF Keys, HasUnknownKey

LEMMA LoadFailsIs ==
    ASSUME NEW data \in Data, Full(data), Flat(data) = contents,
           NEW c \in Command, c.kind = "load"
    PROVE  LoadFails(data, c) <=> Rejectable(c)
<1>1. c.profile \in Profiles \cup {NoProfile} /\ Default \in Profiles
  BY ConfigFileAssumption DEF Command
<1>2. HasUnknownKey(TableOf(data, Default)) <=> Entry(Default, Unknown) # Absent
  BY <1>1, UnknownKeys
<1>3. c.profile # NoProfile =>
        /\ HasUnknownKey(TableOf(data, c.profile)) <=> Entry(c.profile, Unknown) # Absent
        /\ c.profile \in DOMAIN data.profiles <=> HasEntries(c.profile)
  <2> SUFFICES ASSUME c.profile # NoProfile
               PROVE  /\ HasUnknownKey(TableOf(data, c.profile)) <=> Entry(c.profile, Unknown) # Absent
                      /\ c.profile \in DOMAIN data.profiles <=> HasEntries(c.profile)
    OBVIOUS
  <2>1. PICK q \in Profiles : q = c.profile
    BY <1>1
  <2> QED
    BY <2>1, UnknownKeys, HasTable
<1>4. CASE c.profile \in {NoProfile, Default}
  BY <1>2, <1>3, <1>4 DEF LoadFails, Rejectable, IsNamed
<1>5. CASE c.profile \notin {NoProfile, Default}
  BY <1>2, <1>3, <1>5 DEF LoadFails, Rejectable, IsNamed
<1> QED
  BY <1>4, <1>5

LEMMA LoadedIs ==
    ASSUME NEW data \in Data, Flat(data) = contents, NEW c \in Command, c.kind = "load"
    PROVE  Loaded(data, c) = Expected(c)
<1>1. c.profile \in Profiles \cup {NoProfile} /\ Default \in Profiles
  BY ConfigFileAssumption DEF Command
<1>2. \A q \in Profiles, s \in Settings :
        /\ s \in DOMAIN TableOf(data, q) <=> Entry(q, s) # Absent
        /\ s \in DOMAIN TableOf(data, q) => TableOf(data, q)[s] = Entry(q, s)
  BY TableHas DEF Entry, Keys
<1> DEFINE default == Applied([s \in Settings |-> Absent], TableOf(data, Default))
           named == IF IsNamed(c.profile) THEN Applied(default, TableOf(data, c.profile)) ELSE default
<1>3. \A s \in Settings : default[s] = Entry(Default, s)
  BY <1>1, <1>2 DEF Applied
<1> HIDE DEF default
<1>4. \A s \in Settings :
        named[s] = IF c.profile # NoProfile /\ Entry(c.profile, s) # Absent
                   THEN Entry(c.profile, s) ELSE Entry(Default, s)
  <2>1. CASE IsNamed(c.profile)
    <3>1. c.profile \in Profiles /\ c.profile # NoProfile
      BY <1>1, <2>1 DEF IsNamed
    <3> QED
      BY <1>2, <1>3, <2>1, <3>1 DEF Applied
  <2>2. CASE ~IsNamed(c.profile)
    BY <1>3, <2>2 DEF IsNamed
  <2> QED
    BY <2>1, <2>2
<1>5. Loaded(data, c) = Applied(named, c.env)
  BY DEF Loaded, default
<1> HIDE DEF named
<1>6. Loaded(data, c) = [s \in Settings |-> IF s \in DOMAIN c.env THEN c.env[s] ELSE named[s]]
  BY <1>5 DEF Applied
<1>7. Expected(c) =
        [s \in Settings |->
           CASE s \in DOMAIN c.env -> c.env[s]
             [] s \notin DOMAIN c.env /\ c.profile # NoProfile /\ Entry(c.profile, s) # Absent
                  -> Entry(c.profile, s)
             [] OTHER -> Entry(Default, s)]
  BY DEF Expected
<1>8. \A s \in Settings :
        (IF s \in DOMAIN c.env THEN c.env[s] ELSE named[s]) =
           CASE s \in DOMAIN c.env -> c.env[s]
             [] s \notin DOMAIN c.env /\ c.profile # NoProfile /\ Entry(c.profile, s) # Absent
                  -> Entry(c.profile, s)
             [] OTHER -> Entry(Default, s)
  <2> SUFFICES ASSUME NEW s \in Settings
               PROVE  (IF s \in DOMAIN c.env THEN c.env[s] ELSE named[s]) =
                        CASE s \in DOMAIN c.env -> c.env[s]
                          [] s \notin DOMAIN c.env /\ c.profile # NoProfile /\ Entry(c.profile, s) # Absent
                               -> Entry(c.profile, s)
                          [] OTHER -> Entry(Default, s)
    OBVIOUS
  <2>1. CASE s \in DOMAIN c.env
    BY <2>1
  <2>2. CASE s \notin DOMAIN c.env
    BY <1>4, <2>2
  <2> QED
    BY <2>1, <2>2
<1> QED
  BY <1>6, <1>7, <1>8

LEMMA AnswerIs ==
    ASSUME NEW data \in Data, Full(data), Flat(data) = contents,
           NEW c \in Command, ~IsWriter(c)
    PROVE  Answer(data, c) = Expected(c)
<1>1. CASE c.kind = "load"
  BY <1>1, LoadedIs DEF Answer
<1>2. CASE c.kind = "get"
  <2>1. PICK q \in Profiles, k \in Keys : q = c.profile /\ k = c.key
    BY <1>2 DEF Command
  <2>2. ValueOf(data, q, k) = Entry(q, k)
    BY TableHas DEF ValueOf, Entry
  <2> QED
    BY <1>2, <2>1, <2>2 DEF Answer, Expected
<1>3. CASE c.kind = "list"
  <2>1. \A q \in Profiles : q \in DOMAIN data.profiles <=> HasEntries(q)
    BY HasTable
  <2>2. DOMAIN data.profiles \subseteq Profiles /\ Default \in Profiles
    BY Tables, ConfigFileAssumption
  <2>3. DOMAIN data.profiles \cup {Default} = {p \in Profiles : p = Default \/ HasEntries(p)}
    BY <2>1, <2>2
  <2> QED
    BY <1>3, <2>3 DEF Answer, Expected
<1>4. c.kind \in {"set", "unset", "get", "load", "list"}
  BY DEF Command
<1> QED
  BY <1>1, <1>2, <1>3, <1>4 DEF IsWriter

AnswerIsCurrent(p) ==
    Answers(p) /\ Settled =>
        IF pc'[p] = "done" THEN result'[p] = Expected(command[p]) /\ ~Rejectable(command[p])
                           ELSE Rejectable(command[p])

LEMMA AnswersStep ==
    ASSUME IInv, Filled, NEW p \in Processes
    PROVE  AnswerIsCurrent(p)
<1> SUFFICES ASSUME Answers(p), Settled
             PROVE  IF pc'[p] = "done" THEN result'[p] = Expected(command[p]) /\ ~Rejectable(command[p])
                                       ELSE Rejectable(command[p])
  BY DEF AnswerIsCurrent
<1>1. file.kind # "garbled" /\ Flat(Held) = contents
  BY DEF IInv, Quiet, Settled
<1>2. pc[p] = "reading" /\ ~IsWriter(command[p])
  BY DEF Answers
<1>3. PICK data \in Readings :
          IF command[p].kind = "load" /\ LoadFails(data, command[p])
          THEN Go(p, "rejected") /\ UNCHANGED result
          ELSE Go(p, "done") /\ result' = [result EXCEPT ![p] = Answer(data, command[p])]
  BY DEF Answers
<1>4. data \in Data /\ Flat(data) = contents /\ Full(data)
  BY <1>1, ReadingsAreData, ReadingsAreFull DEF IInv, Settled
<1>5. command[p] \in Command
  BY <1>2 DEF IInv, TypeOK, Asked
<1>6. \A where : Go(p, where) => pc'[p] = where
  BY DEF IInv, TypeOK, Go
<1>7. CASE command[p].kind = "load" /\ LoadFails(data, command[p])
  <2>1. pc'[p] = "rejected"
    BY <1>3, <1>6, <1>7
  <2>2. Rejectable(command[p])
    BY <1>4, <1>5, <1>7, LoadFailsIs
  <2> QED
    BY <2>1, <2>2
<1>8. CASE ~(command[p].kind = "load" /\ LoadFails(data, command[p]))
  <2>1. pc'[p] = "done" /\ result' = [result EXCEPT ![p] = Answer(data, command[p])]
    BY <1>3, <1>6, <1>8
  <2>2. result'[p] = Answer(data, command[p])
    BY <2>1 DEF IInv, Asked
  <2>3. Answer(data, command[p]) = Expected(command[p])
    BY <1>2, <1>4, <1>5, AnswerIs
  <2>4. ~Rejectable(command[p])
    <3>1. CASE command[p].kind = "load"
      BY <1>4, <1>5, <1>8, <3>1, LoadFailsIs
    <3>2. CASE command[p].kind # "load"
      BY <3>2 DEF Rejectable
    <3> QED
      BY <3>1, <3>2
  <2> QED
    BY <2>1, <2>2, <2>3, <2>4
<1> QED
  BY <1>7, <1>8

(***************************************************************************)
(* What a reading command says is what the file should hold, by the        *)
(* commands that have written: get, list and load, for any number of       *)
(* processes, unless a race has spoilt the file or somebody is writing.    *)
(* An empty table written by hand would be listed as well.                 *)
(***************************************************************************)
THEOREM AnswersCurrent ==
    ASSUME NoEmptyTable
    PROVE  Spec => AnswersAreCurrent
<1>1. Init => IInv /\ Filled
  BY InitIInv, InitFilled
<1>2. IInv /\ Filled /\ [Next]_vars => (IInv /\ Filled)'
  BY TypeStep, QuietStep, OwnedStep, FilledStep DEF IInv
<1>3. IInv /\ Filled =>
        [\A p \in Processes :
           Answers(p) /\ Settled =>
              IF pc'[p] = "done" THEN result'[p] = Expected(command[p]) /\ ~Rejectable(command[p])
                                 ELSE Rejectable(command[p])]_vars
  BY AnswersStep DEF AnswerIsCurrent
<1> QED
  BY <1>1, <1>2, <1>3, PTL DEF Spec, AnswersAreCurrent

-----------------------------------------------------------------------------
(***************************************************************************)
(* What the writer needs.  Without a name that needs quotes and without a  *)
(* value with a line break, every file that was written can be read.       *)
(***************************************************************************)
NothingToQuote ==
    /\ Awkward = {}
    /\ \A f \in Files : f.kind = "text" => f.data.rest # "quoted"

Plain ==
    /\ file.kind \in {"text", "garbled"} => file.data.rest # "quoted"
    /\ \A p \in Processes : view[p].rest # "quoted"

LEMMA PlainStep ==
    ASSUME IInv, Plain, [Next]_vars
    PROVE  Plain'
<1>1. CASE \E p \in Processes : Reads(p)
  <2>1. PICK p \in Processes : Reads(p)
    BY <1>1
  <2>2. file' = file /\ pc[p] = "reading" /\ IsWriter(command[p])
    BY <2>1 DEF Reads
  <2>3. PICK data \in Readings : view' = [view EXCEPT ![p] = Changed(data, command[p])]
    BY <2>1 DEF Reads
  <2>4. data \in Data
    BY <2>3, ReadingsAreData DEF IInv
  <2>5. data.rest # "quoted"
    <3>1. file \in Text \cup {NoFile} \cup Garbled
      BY DEF IInv, TypeOK
    <3>2. CASE file = NoFile
      BY <2>3, <3>2 DEF Readings, NoFile, NoData
    <3>3. CASE file \in Text
      BY <2>3, <3>3 DEF Readings, Text, Plain
    <3>4. CASE file \in Garbled
      <4>1. file.kind = "garbled" /\ file.data \in Data
        BY <3>4 DEF Garbled
      <4>2. Parses([data |-> data, dumped |-> TRUE])
        BY <2>3, <4>1 DEF Readings
      <4> QED
        BY <4>2 DEF Parses
    <3> QED
      BY <3>1, <3>2, <3>3, <3>4
  <2>6. Changed(data, command[p]).rest = data.rest
    BY <2>2, <2>4 DEF Changed, SetIn, UnsetIn, Data, IsWriter
  <2>7. \A q \in Processes : view'[q] \in {view[q], Changed(data, command[p])}
    BY <2>3 DEF IInv, TypeOK
  <2>8. \A q \in Processes : view'[q].rest # "quoted"
    BY <2>5, <2>6, <2>7 DEF Plain
  <2> QED
    BY <2>2, <2>8 DEF Plain
<1>2. CASE \E p \in Processes : Opens(p)
  BY <1>2 DEF Opens, Empty, NoData, Plain
<1>3. CASE \E p \in Processes : Writes(p)
  <2>1. PICK p \in Processes : Writes(p)
    BY <1>3
  <2>2. view' = view /\ (file' = file \/ file'.data = view[p])
    BY <2>1 DEF Writes
  <2> QED
    BY <2>2 DEF Plain
<1>4. CASE UNCHANGED <<file, view>>
  BY <1>4 DEF Plain
<1> QED
  BY <1>1, <1>2, <1>3, <1>4 DEF Next, vars, Begin, Answers, ReadFails, Renders, Dies

\* The run config_names finds ReadsWhatItWrote violated by a table at the root whose name
\* needs quotes.  Such names, and values with a line break, are all that it takes.
THEOREM WritesWhatItCanRead ==
    ASSUME NothingToQuote
    PROVE  Spec => []ReadsWhatItWrote
<1>1. Init => IInv /\ Plain
  <2>1. Init => Plain
    <3>1. Init => file \in Text \cup {NoFile}
      BY InputsAssumption DEF Init
    <3>2. Init /\ file.kind \in {"text", "garbled"} => file.kind = "text"
      BY <3>1 DEF Text, NoFile
    <3> QED
      BY <3>2 DEF Init, Plain, NoData, NothingToQuote
  <2> QED
    BY <2>1, InitIInv
<1>2. IInv /\ Plain /\ [Next]_vars => (IInv /\ Plain)'
  BY TypeStep, QuietStep, OwnedStep, PlainStep DEF IInv
<1>3. IInv /\ Plain => ReadsWhatItWrote
  BY DEF Plain, ReadsWhatItWrote, Parses, NothingToQuote
<1> QED
  BY <1>1, <1>2, <1>3, PTL DEF Spec

================================================================================
