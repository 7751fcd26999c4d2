-------------------------- MODULE TlcCheck_proofs ---------------------------
(***************************************************************************)
(* Directories are unique, jobs are isolated and calls that return leave   *)
(* nothing behind, for any number of processes, identifiers, calls and     *)
(* auxiliary modules.                                                      *)
(***************************************************************************)
EXTENDS TlcCheck, ToolOutput_proofs

\* The system gives one identifier to one process at a time.
PidsDiffer ==
  \A p, q \in Procs : proc[p] = "alive" /\ proc[q] = "alive" /\ p # q => pid[p] # pid[q]

\* The directory of a call is named after its process and a number that its
\* process has counted past.
Named(c) == InFlight(c) =>
  /\ proc[owner[c]] = "alive"
  /\ dir[c] \in Dirs
  /\ dir[c][1] = pid[owner[c]] /\ dir[c][2] < seq[owner[c]]

NumbersDiffer ==
  \A c, d \in Calls : InFlight(c) /\ InFlight(d) /\ c # d /\ owner[c] = owner[d]
                        => dir[c][2] # dir[d][2]

\* A TLC runs while its call waits for it, or after its process was killed.
Running(c) == tlc[c] = "running" => pc[c] \in {"wait", "gone"} /\ dir[c] \in Dirs

Leaky(c) == leaked[c] => pc[c] = "done"

\* Entries are in the directory of the call that made them, which has one.
Owned == \A e \in tree : e.dir = dir[e.by] /\ pc[e.by] \notin {"idle", "clear", "create"}

\* Before the directory exists every file has yet to be written, and none
\* when TLC runs.
Pending(c) == /\ todo[c] \subseteq FilesOf(c)
              /\ pc[c] \in {"idle", "clear", "create"} => todo[c] = FilesOf(c)
              /\ pc[c] = "wait" => todo[c] = {}

\* The files in a directory that was clean are those written so far.
Preparing(c) == pc[c] \in {"create", "files", "wait"} /\ clean[c]

OnlyOwn(c) ==
  Preparing(c) => \A e \in tree : e.dir = dir[c] /\ e.file \notin {".", "states"}
                                   => e.by = c /\ e.file \in FilesOf(c) \ todo[c]

AllWritten(c) ==
  Preparing(c) => \A f \in FilesOf(c) \ todo[c] : Entry(dir[c], f, c) \in tree

CallInv(c) == Named(c) /\ Running(c) /\ Leaky(c) /\ Pending(c) /\ OnlyOwn(c) /\ AllWritten(c)

IInv == /\ TypeOK /\ PidsDiffer /\ NumbersDiffer
        /\ Owned /\ OnlyTheDeadLeave
        /\ \A c \in Calls : CallInv(c)

LEMMA InitInv == Init => IInv
<1> SUFFICES ASSUME Init PROVE IInv
  OBVIOUS
<1> USE DEF Init
<1>1. TypeOK
  BY TlcCheckAssumption DEF TypeOK, Places, FilesOf
<1>2. PidsDiffer /\ NumbersDiffer /\ Owned /\ OnlyTheDeadLeave
  BY DEF PidsDiffer, NumbersDiffer, Owned, OnlyTheDeadLeave, InFlight
<1>3. ASSUME NEW c \in Calls PROVE CallInv(c)
  BY DEF CallInv, Named, Running, Leaky, Pending, OnlyOwn, AllWritten, Preparing, InFlight
<1> QED
  BY <1>1, <1>2, <1>3 DEF IInv

\* Two calls on their way have two directories: by the identifiers of their
\* processes, or by the numbers in one process.
LEMMA UniqueFromInv == IInv => DirsAreUnique
BY DEF IInv, CallInv, Named, PidsDiffer, NumbersDiffer, DirsAreUnique, TypeOK

\* What is said of a call survives a step that changes nothing of it, and in
\* its directory at most entries of TLC's own.
LEMMA OtherCall ==
  ASSUME IInv, NEW c \in Calls,
         pc'[c] = pc[c], dir'[c] = dir[c], clean'[c] = clean[c], todo'[c] = todo[c],
         tlc'[c] \in {tlc[c], "ended"}, leaked'[c] = leaked[c], owner' = owner,
         InFlight(c) => /\ proc'[owner[c]] = "alive"
                        /\ pid'[owner[c]] = pid[owner[c]]
                        /\ seq'[owner[c]] >= seq[owner[c]]
                        /\ seq'[owner[c]] \in Nat,
         InFlight(c) => \A e : e.dir = dir[c] /\ e.file \notin {".", "states"}
                                 => (e \in tree <=> e \in tree')
  PROVE  CallInv(c)'
<1>1. Named(c)'
  BY DEF IInv, CallInv, Named, InFlight, TypeOK, Dirs
<1>2. Running(c)' /\ Leaky(c)' /\ Pending(c)'
  BY DEF IInv, CallInv, Running, Leaky, Pending, FilesOf
<1>3. Preparing(c)' => Preparing(c) /\ InFlight(c)
  BY DEF Preparing, InFlight
<1>4. OnlyOwn(c)'
  BY <1>3 DEF IInv, CallInv, OnlyOwn, FilesOf
<1>5. AllWritten(c)'
  <2> SUFFICES ASSUME Preparing(c)', NEW f \in FilesOf(c) \ todo[c]
               PROVE Entry(dir[c], f, c) \in tree'
    BY DEF AllWritten, FilesOf, Entry
  <2>1. Entry(dir[c], f, c) \in tree
    BY <1>3 DEF IInv, CallInv, AllWritten
  <2>2. f \notin {".", "states"}
    BY TlcCheckAssumption DEF FilesOf
  <2> QED
    BY <1>3, <2>1, <2>2 DEF Entry
<1> QED
  BY <1>1, <1>2, <1>4, <1>5 DEF CallInv

LEMMA StartInv ==
  ASSUME IInv, NEW p \in Procs, Start(p) PROVE IInv'
<1> USE DEF Start
<1>1. TypeOK'
  BY DEF IInv, TypeOK
<1>2. PidsDiffer'
  BY DEF IInv, TypeOK, PidsDiffer
<1>3. NumbersDiffer' /\ Owned' /\ OnlyTheDeadLeave'
  BY DEF IInv, NumbersDiffer, Owned, OnlyTheDeadLeave, InFlight
<1>4. ASSUME NEW c \in Calls PROVE CallInv(c)'
  BY OtherCall DEF IInv, TypeOK, CallInv, Named
<1> QED
  BY <1>1, <1>2, <1>3, <1>4 DEF IInv

LEMMA RejectInv ==
  ASSUME IInv, NEW c \in Calls, Reject(c) PROVE IInv'
<1> USE DEF Reject, At, GoTo, Return
<1>1. TypeOK'
  BY DEF IInv, TypeOK, Places
<1>2. PidsDiffer' /\ NumbersDiffer' /\ Owned'
  BY DEF IInv, TypeOK, PidsDiffer, NumbersDiffer, Owned, InFlight
<1>3. OnlyTheDeadLeave'
  BY DEF IInv, TypeOK, OnlyTheDeadLeave, InFlight
<1>4. CallInv(c)'
  BY DEF IInv, TypeOK, CallInv, Named, Running, Leaky, Pending, OnlyOwn, AllWritten, Preparing,
         InFlight, FilesOf
<1>5. ASSUME NEW d \in Calls \ {c} PROVE CallInv(d)'
  BY OtherCall DEF IInv, TypeOK, CallInv, Named
<1> QED
  BY <1>1, <1>2, <1>3, <1>4, <1>5 DEF IInv

LEMMA ClaimInv ==
  ASSUME IInv, NEW c \in Calls, Claim(c) PROVE IInv'
<1> USE DEF Claim, At, GoTo
<1> DEFINE p == owner[c]
           n == <<pid[p], seq[p], ModuleName[c]>>
<1>1. n \in Dirs /\ n[1] = pid[p] /\ n[2] = seq[p] /\ seq[p] \in Nat
  BY DEF IInv, TypeOK, Dirs, Names
<1>2. dir'[c] = n /\ \A d \in Calls \ {c} : dir'[d] = dir[d]
  BY DEF IInv, TypeOK
<1>3. TypeOK'
  BY <1>1 DEF IInv, TypeOK, Places
<1>4. PidsDiffer'
  BY DEF IInv, PidsDiffer
<1>5. NumbersDiffer'
  BY <1>1, <1>2 DEF IInv, TypeOK, NumbersDiffer, CallInv, Named, InFlight, Dirs
<1>6. \A e \in tree : e.by # c /\ e.by \in Calls
  BY DEF IInv, TypeOK, CallInv, Leaky, OnlyTheDeadLeave, InFlight
<1>7. Owned' /\ OnlyTheDeadLeave'
  BY <1>2, <1>6 DEF IInv, TypeOK, Owned, OnlyTheDeadLeave, InFlight
<1>8. CallInv(c)'
  BY <1>1, <1>2 DEF IInv, TypeOK, CallInv, Named, Running, Leaky, Pending, OnlyOwn, AllWritten,
                    Preparing, InFlight, FilesOf
<1>9. ASSUME NEW d \in Calls \ {c} PROVE CallInv(d)'
  BY <1>2, OtherCall DEF IInv, TypeOK, CallInv, Named
<1> QED
  BY <1>3, <1>4, <1>5, <1>7, <1>8, <1>9 DEF IInv

\* Two calls on their way do not touch each other's directories.
LEMMA Apart ==
  ASSUME IInv, NEW c \in Calls, NEW d \in Calls, c # d, InFlight(c), InFlight(d)
  PROVE  dir[c] # dir[d]
BY UniqueFromInv DEF DirsAreUnique

LEMMA ClearInv ==
  ASSUME IInv, NEW c \in Calls, Clear(c) PROVE IInv'
<1> USE DEF Clear, At, GoTo
<1> PICK left \in Remains(dir[c]) : /\ tree' = (tree \ In(dir[c])) \cup left
                                    /\ clean' = [clean EXCEPT ![c] = left = {}]
  OBVIOUS
<1>1. left \subseteq In(dir[c]) /\ tree' \subseteq tree
  BY DEF Remains, In
<1>2. \A e : e.dir # dir[c] => (e \in tree <=> e \in tree')
  BY <1>1 DEF In
<1>3. clean'[c] => \A e \in tree' : e.dir # dir[c]
  BY DEF IInv, TypeOK, In
<1>4. TypeOK'
  BY <1>1 DEF IInv, TypeOK, Places
<1>5. PidsDiffer' /\ NumbersDiffer' /\ Owned'
  BY <1>1 DEF IInv, TypeOK, PidsDiffer, NumbersDiffer, Owned, InFlight
<1>6. OnlyTheDeadLeave'
  BY <1>1 DEF IInv, TypeOK, OnlyTheDeadLeave, InFlight
<1>7. CallInv(c)'
  <2>1. Named(c)' /\ Running(c)' /\ Leaky(c)' /\ Pending(c)'
    BY DEF IInv, TypeOK, CallInv, Named, Running, Leaky, Pending, InFlight, FilesOf
  <2>2. OnlyOwn(c)'
    BY <1>3 DEF OnlyOwn, Preparing
  <2>3. AllWritten(c)'
    BY DEF IInv, TypeOK, CallInv, Pending, AllWritten, FilesOf
  <2> QED
    BY <2>1, <2>2, <2>3 DEF CallInv
<1>8. ASSUME NEW d \in Calls \ {c} PROVE CallInv(d)'
  <2>1. InFlight(d) => dir[d] # dir[c]
    BY Apart DEF InFlight
  <2> QED
    BY <1>2, <2>1, OtherCall DEF IInv, TypeOK, CallInv, Named
<1> QED
  BY <1>4, <1>5, <1>6, <1>7, <1>8 DEF IInv

\* What Put does to the tree: one entry of the call's own directory.
LEMMA PutTree ==
  ASSUME IInv, NEW c \in Calls, NEW f, Put(f, c)
  PROVE  /\ Entry(dir[c], f, c) \in tree'
         /\ \A e \in tree' : e \in tree \/ e = Entry(dir[c], f, c)
         /\ \A e \in tree' : e.dir = dir[c] /\ e.file = f => e = Entry(dir[c], f, c)
         /\ \A e \in tree : e.dir # dir[c] \/ e.file # f => e \in tree'
         /\ \A e : e.dir # dir[c] => (e \in tree <=> e \in tree')
         /\ dir[c] \in Dirs /\ f \in AuxNames \cup {".", "tla", "cfg", "states"}
               => tree' \subseteq [dir : Dirs, file : AuxNames \cup {".", "tla", "cfg", "states"},
                                   by : Calls]
<1>1. TypeOK
  BY DEF IInv
<1> QED
  BY <1>1 DEF Put, Entry, TypeOK

LEMMA CreateInv ==
  ASSUME IInv, NEW c \in Calls, Create(c) PROVE IInv'
<1> USE DEF Create, At, GoTo, Return
<1>1. CASE Put(".", c) /\ pc' = [pc EXCEPT ![c] = "files"]
  <2>1. dir[c] \in Dirs
    BY DEF IInv, CallInv, Named, InFlight
  <2> DEFINE dot == Entry(dir[c], ".", c)
  <2>a. /\ dot.dir = dir[c] /\ dot.file = "." /\ dot.by = c
        /\ \A e \in tree' : e \in tree \/ e = dot
        /\ \A e : e.dir # dir[c] => (e \in tree <=> e \in tree')
        /\ tree' \subseteq [dir : Dirs, file : AuxNames \cup {".", "tla", "cfg", "states"},
                           by : Calls]
    BY <1>1, <2>1, PutTree DEF Entry
  <2> HIDE DEF dot
  <2>2. TypeOK'
    BY <1>1, <2>a DEF IInv, TypeOK, Places
  <2>3. PidsDiffer' /\ NumbersDiffer'
    BY <1>1 DEF IInv, TypeOK, PidsDiffer, NumbersDiffer, InFlight
  <2>4. Owned'
    BY <1>1, <2>a DEF IInv, TypeOK, Owned
  <2>5. OnlyTheDeadLeave'
    BY <1>1, <2>a DEF IInv, TypeOK, OnlyTheDeadLeave, InFlight
  <2>6. CallInv(c)'
    <3>1. Named(c)' /\ Running(c)' /\ Leaky(c)' /\ Pending(c)'
      BY <1>1 DEF IInv, TypeOK, CallInv, Named, Running, Leaky, Pending, InFlight, FilesOf
    <3>2. OnlyOwn(c)'
      BY <1>1, <2>a DEF IInv, TypeOK, CallInv, OnlyOwn, Preparing, FilesOf
    <3>3. AllWritten(c)'
      BY <1>1 DEF IInv, TypeOK, CallInv, Pending, AllWritten, FilesOf
    <3> QED
      BY <3>1, <3>2, <3>3 DEF CallInv
  <2>7. ASSUME NEW d \in Calls \ {c} PROVE CallInv(d)'
    <3>1. InFlight(d) => dir[d] # dir[c]
      BY Apart DEF InFlight
    <3> QED
      BY <1>1, <3>1, <2>a, OtherCall DEF IInv, TypeOK, CallInv, Named
  <2> QED
    BY <2>2, <2>3, <2>4, <2>5, <2>6, <2>7 DEF IInv
<1>2. CASE pc' = [pc EXCEPT ![c] = "done"] /\ UNCHANGED tree
  <2>1. TypeOK'
    BY <1>2 DEF IInv, TypeOK, Places
  <2>2. PidsDiffer' /\ NumbersDiffer' /\ Owned'
    BY <1>2 DEF IInv, TypeOK, PidsDiffer, NumbersDiffer, Owned, InFlight
  <2>3. OnlyTheDeadLeave'
    BY <1>2 DEF IInv, TypeOK, Owned, OnlyTheDeadLeave, InFlight
  <2>4. CallInv(c)'
    BY <1>2 DEF IInv, TypeOK, CallInv, Named, Running, Leaky, Pending, OnlyOwn, AllWritten,
                Preparing, InFlight, FilesOf
  <2>5. ASSUME NEW d \in Calls \ {c} PROVE CallInv(d)'
    BY <1>2, OtherCall DEF IInv, TypeOK, CallInv, Named
  <2> QED
    BY <2>1, <2>2, <2>3, <2>4, <2>5 DEF IInv
<1> QED
  BY <1>1, <1>2

\* A call that goes to its end by an error changes no file.
LEMMA FailInv ==
  ASSUME IInv, NEW c \in Calls, pc[c] = "files", proc[owner[c]] = "alive",
         pc' = [pc EXCEPT ![c] = "drop"],
         UNCHANGED <<proc, pid, owner, seq, dir, clean, todo, tlc, tree, leaked>>
  PROVE  IInv'
<1>1. TypeOK'
  BY DEF IInv, TypeOK, Places
<1>2. PidsDiffer' /\ NumbersDiffer' /\ Owned' /\ OnlyTheDeadLeave'
  BY DEF IInv, TypeOK, PidsDiffer, NumbersDiffer, Owned, OnlyTheDeadLeave, InFlight
<1>3. CallInv(c)'
  BY DEF IInv, TypeOK, CallInv, Named, Running, Leaky, Pending, OnlyOwn, AllWritten,
         Preparing, InFlight, FilesOf
<1>4. ASSUME NEW d \in Calls \ {c} PROVE CallInv(d)'
  BY OtherCall DEF IInv, TypeOK, CallInv, Named
<1> QED
  BY <1>1, <1>2, <1>3, <1>4 DEF IInv

LEMMA WriteFileInv ==
  ASSUME IInv, NEW c \in Calls, NEW f \in FilesOf(c), WriteFile(c, f) PROVE IInv'
<1> USE DEF WriteFile, At
<1>1. CASE Put(f, c) /\ todo' = [todo EXCEPT ![c] = @ \ {f}] /\ pc' = pc
  <2>1. dir[c] \in Dirs
    BY DEF IInv, CallInv, Named, InFlight
  <2> DEFINE new == Entry(dir[c], f, c)
  <2>2. f \in AuxNames \cup {"tla", "cfg"} /\ f \notin {".", "states"}
    BY TlcCheckAssumption DEF FilesOf
  <2>3. /\ new.dir = dir[c] /\ new.file = f /\ new.by = c /\ new \in tree'
        /\ \A e \in tree' : e \in tree \/ e = new
        /\ \A e \in tree' : e.dir = dir[c] /\ e.file = f => e = new
        /\ \A e \in tree : e.dir # dir[c] \/ e.file # f => e \in tree'
        /\ \A e : e.dir # dir[c] => (e \in tree <=> e \in tree')
        /\ tree' \subseteq [dir : Dirs, file : AuxNames \cup {".", "tla", "cfg", "states"},
                           by : Calls]
    BY <1>1, <2>1, <2>2, PutTree DEF Entry
  <2>4. todo'[c] = todo[c] \ {f} /\ \A d \in Calls \ {c} : todo'[d] = todo[d]
    BY <1>1 DEF IInv, TypeOK
  <2>5. AllWritten(c)'
    <3> SUFFICES ASSUME Preparing(c)', NEW g \in FilesOf(c) \ todo'[c]
                 PROVE Entry(dir[c], g, c) \in tree'
      BY DEF AllWritten, FilesOf, Entry
    <3>1. CASE g = f
      BY <2>3, <3>1
    <3>2. CASE g # f
      <4>1. Entry(dir[c], g, c) \in tree
        BY <1>1, <2>4, <3>2 DEF IInv, CallInv, AllWritten, Preparing
      <4> QED
        BY <4>1, <2>3, <3>2 DEF Entry
    <3> QED
      BY <3>1, <3>2
  <2> HIDE DEF new
  <2>6. TypeOK'
    BY <1>1, <2>3 DEF IInv, TypeOK
  <2>7. PidsDiffer' /\ NumbersDiffer'
    BY <1>1 DEF IInv, PidsDiffer, NumbersDiffer, InFlight
  <2>8. Owned' /\ OnlyTheDeadLeave'
    BY <1>1, <2>3 DEF IInv, Owned, OnlyTheDeadLeave, InFlight
  <2>9. CallInv(c)'
    <3>1. Named(c)' /\ Running(c)' /\ Leaky(c)' /\ Pending(c)'
      BY <1>1, <2>4 DEF IInv, CallInv, Named, Running, Leaky, Pending, InFlight, FilesOf
    <3>2. OnlyOwn(c)'
      BY <1>1, <2>3, <2>4 DEF IInv, CallInv, OnlyOwn, Preparing, FilesOf
    <3> QED
      BY <3>1, <3>2, <2>5 DEF CallInv
  <2>10. ASSUME NEW d \in Calls \ {c} PROVE CallInv(d)'
    <3>1. InFlight(d) => dir[d] # dir[c]
      BY Apart DEF InFlight
    <3> QED
      BY <1>1, <2>3, <2>4, <3>1, OtherCall DEF IInv, TypeOK, CallInv, Named
  <2> QED
    BY <2>6, <2>7, <2>8, <2>9, <2>10 DEF IInv
<1>2. CASE Fail(c) /\ UNCHANGED <<todo, tree>>
  BY <1>2, FailInv DEF Fail, GoTo
<1> QED
  BY <1>1, <1>2

LEMMA SpawnInv ==
  ASSUME IInv, NEW c \in Calls, Spawn(c) PROVE IInv'
<1> USE DEF Spawn, At, GoTo
<1>1. CASE tlc' = [tlc EXCEPT ![c] = "running"] /\ pc' = [pc EXCEPT ![c] = "wait"]
  <2>1. TypeOK'
    BY <1>1 DEF IInv, TypeOK, Places
  <2>2. PidsDiffer' /\ NumbersDiffer' /\ Owned' /\ OnlyTheDeadLeave'
    BY <1>1 DEF IInv, TypeOK, PidsDiffer, NumbersDiffer, Owned, OnlyTheDeadLeave, InFlight
  <2>3. CallInv(c)'
    BY <1>1 DEF IInv, TypeOK, CallInv, Named, Running, Leaky, Pending, OnlyOwn, AllWritten,
                Preparing, InFlight, FilesOf, Entry
  <2>4. ASSUME NEW d \in Calls \ {c} PROVE CallInv(d)'
    BY <1>1, OtherCall DEF IInv, TypeOK, CallInv, Named
  <2> QED
    BY <2>1, <2>2, <2>3, <2>4 DEF IInv
<1>2. CASE Fail(c) /\ UNCHANGED tlc
  BY <1>2, FailInv DEF Fail
<1> QED
  BY <1>1, <1>2

LEMMA CollectInv ==
  ASSUME IInv, NEW c \in Calls, Collect(c) PROVE IInv'
<1> USE DEF Collect, At, GoTo
<1>1. TypeOK'
  BY DEF IInv, TypeOK, Places
<1>2. PidsDiffer' /\ NumbersDiffer' /\ Owned' /\ OnlyTheDeadLeave'
  BY DEF IInv, TypeOK, PidsDiffer, NumbersDiffer, Owned, OnlyTheDeadLeave, InFlight
<1>3. CallInv(c)'
  BY DEF IInv, TypeOK, CallInv, Named, Running, Leaky, Pending, OnlyOwn, AllWritten,
         Preparing, InFlight, FilesOf
<1>4. ASSUME NEW d \in Calls \ {c} PROVE CallInv(d)'
  BY OtherCall DEF IInv, TypeOK, CallInv, Named
<1> QED
  BY <1>1, <1>2, <1>3, <1>4 DEF IInv

LEMMA DropInv ==
  ASSUME IInv, NEW c \in Calls, Drop(c) PROVE IInv'
<1> USE DEF Drop, At, GoTo
<1> PICK left \in Remains(dir[c]) : /\ tree' = (tree \ In(dir[c])) \cup left
                                    /\ leaked' = [leaked EXCEPT ![c] = left # {}]
  OBVIOUS
<1>1. left \subseteq In(dir[c]) /\ tree' \subseteq tree
  BY DEF Remains, In
<1>2. \A e : e.dir # dir[c] => (e \in tree <=> e \in tree')
  BY <1>1 DEF In
<1>3. (\E e \in tree' : e.dir = dir[c]) => leaked'[c]
  BY DEF IInv, TypeOK, In
<1>4. TypeOK'
  BY <1>1 DEF IInv, TypeOK, Places
<1>5. PidsDiffer' /\ NumbersDiffer' /\ Owned'
  BY <1>1 DEF IInv, TypeOK, PidsDiffer, NumbersDiffer, Owned, InFlight
<1>6. OnlyTheDeadLeave'
  BY <1>1, <1>3 DEF IInv, TypeOK, Owned, OnlyTheDeadLeave, InFlight
<1>7. CallInv(c)'
  BY DEF IInv, TypeOK, CallInv, Named, Running, Leaky, Pending, OnlyOwn, AllWritten,
         Preparing, InFlight, FilesOf
<1>8. ASSUME NEW d \in Calls \ {c} PROVE CallInv(d)'
  <2>1. InFlight(d) => dir[d] # dir[c]
    BY Apart DEF InFlight
  <2> QED
    BY <1>2, <2>1, OtherCall DEF IInv, TypeOK, CallInv, Named
<1> QED
  BY <1>4, <1>5, <1>6, <1>7, <1>8 DEF IInv

\* TLC makes nothing but its metadir, also when its caller was killed.
LEMMA WriteStatesInv ==
  ASSUME IInv, NEW c \in Calls, WriteStates(c) PROVE IInv'
<1> USE DEF WriteStates
<1>1. dir[c] \in Dirs /\ pc[c] \in {"wait", "gone"}
  BY DEF IInv, CallInv, Running
<1>2. /\ tree \subseteq tree'
      /\ \A e \in tree' :
           e \notin tree => e.dir = dir[c] /\ e.by = c /\ e.file \in {".", "states"}
  <2>1. tree' = tree \cup {Entry(dir[c], f, c) : f \in {".", "states"}}
    OBVIOUS
  <2>2. tree \subseteq tree'
    BY <2>1
  <2>3. ASSUME NEW e \in tree', e \notin tree
        PROVE e.dir = dir[c] /\ e.by = c /\ e.file \in {".", "states"}
    <3>1. PICK f \in {".", "states"} : e = Entry(dir[c], f, c)
      BY <2>1, <2>3
    <3> QED
      BY <3>1 DEF Entry
  <2> QED
    BY <2>2, <2>3
<1>3. TypeOK'
  BY <1>1 DEF IInv, TypeOK, Entry
<1>4. PidsDiffer' /\ NumbersDiffer' /\ Owned' /\ OnlyTheDeadLeave'
  BY <1>1, <1>2 DEF IInv, PidsDiffer, NumbersDiffer, Owned, OnlyTheDeadLeave, InFlight
<1>5. ASSUME NEW d \in Calls PROVE CallInv(d)'
  BY <1>2, OtherCall DEF IInv, TypeOK, CallInv, Named
<1> QED
  BY <1>3, <1>4, <1>5 DEF IInv

LEMMA EndInv ==
  ASSUME IInv, NEW c \in Calls, End(c) PROVE IInv'
<1> USE DEF End
<1>1. TypeOK'
  BY DEF IInv, TypeOK
<1>2. PidsDiffer' /\ NumbersDiffer' /\ Owned' /\ OnlyTheDeadLeave'
  BY DEF IInv, PidsDiffer, NumbersDiffer, Owned, OnlyTheDeadLeave, InFlight
<1>3. ASSUME NEW d \in Calls PROVE CallInv(d)'
  BY OtherCall DEF IInv, TypeOK, CallInv, Named
<1> QED
  BY <1>1, <1>2, <1>3 DEF IInv

LEMMA CrashInv ==
  ASSUME IInv, NEW p \in Procs, Crash(p) PROVE IInv'
<1> USE DEF Crash
<1>1. TypeOK'
  BY DEF IInv, TypeOK, Places
<1>2. \A c \in Calls : /\ owner[c] = p /\ InFlight(c) => pc'[c] = "gone"
                       /\ ~(owner[c] = p /\ InFlight(c)) => pc'[c] = pc[c]
  OBVIOUS
<1>3. PidsDiffer' /\ NumbersDiffer'
  BY <1>2 DEF IInv, TypeOK, PidsDiffer, NumbersDiffer, InFlight
<1>4. Owned' /\ OnlyTheDeadLeave'
  BY <1>2 DEF IInv, TypeOK, Owned, OnlyTheDeadLeave, InFlight
<1>5. ASSUME NEW c \in Calls, owner[c] = p, InFlight(c) PROVE CallInv(c)'
  BY <1>2, <1>5 DEF IInv, TypeOK, CallInv, Named, Running, Leaky, Pending, OnlyOwn, AllWritten,
                    Preparing, InFlight, FilesOf
<1>6. ASSUME NEW c \in Calls, ~(owner[c] = p /\ InFlight(c)) PROVE CallInv(c)'
  BY <1>2, <1>6, OtherCall DEF IInv, TypeOK, CallInv, Named
<1> QED
  BY <1>1, <1>3, <1>4, <1>5, <1>6 DEF IInv

LEMMA Invariance == IInv /\ [Next]_vars => IInv'
<1> SUFFICES ASSUME IInv, [Next]_vars PROVE IInv'
  OBVIOUS
<1>1. CASE UNCHANGED vars
  BY <1>1 DEF vars, IInv, TypeOK, PidsDiffer, NumbersDiffer, Owned, OnlyTheDeadLeave, CallInv,
              Named, Running, Leaky, Pending, OnlyOwn, AllWritten, Preparing, InFlight, FilesOf,
              Entry
<1>2. CASE \E p \in Procs : Start(p) \/ Crash(p)
  BY <1>2, StartInv, CrashInv
<1>3. CASE \E c \in Calls : WriteStates(c) \/ End(c)
  BY <1>3, WriteStatesInv, EndInv
<1>4. ASSUME NEW c \in Calls, Step(c) PROVE IInv'
  BY <1>4, RejectInv, ClaimInv, ClearInv, CreateInv, WriteFileInv, SpawnInv, CollectInv, DropInv
     DEF Step
<1> QED
  BY <1>1, <1>2, <1>3, <1>4 DEF Next

LEMMA InvCorrect == Spec => []IInv
BY InitInv, Invariance, PTL DEF Spec

\* TypeOK of every state.
THEOREM TypeCorrect == Spec => []TypeOK
<1>1. IInv => TypeOK
  BY DEF IInv
<1> QED
  BY <1>1, InvCorrect, PTL

\* tlc.rs:460, "Unique per call": no two calls on their way share a
\* directory, however many there are in however many processes.
THEOREM UniqueDirs == Spec => []DirsAreUnique
BY UniqueFromInv, InvCorrect, PTL

\* TLC is given the files of its job and no others when the directory could
\* be cleared.
THEOREM Isolation == Spec => []JobsAreIsolated
<1>1. ASSUME IInv PROVE JobsAreIsolated
  <2> SUFFICES ASSUME NEW c \in Calls, pc[c] = "wait", clean[c]
               PROVE {e \in In(dir[c]) : e.file \notin {".", "states"}}
                       = {Entry(dir[c], f, c) : f \in FilesOf(c)}
    BY DEF JobsAreIsolated
  <2>1. Preparing(c) /\ todo[c] = {}
    BY <1>1 DEF IInv, CallInv, Preparing, Pending
  <2>2. ASSUME NEW e \in In(dir[c]), e.file \notin {".", "states"}
        PROVE e \in {Entry(dir[c], f, c) : f \in FilesOf(c)}
    <3>1. e \in tree /\ e.dir = dir[c] /\ e.by = c /\ e.file \in FilesOf(c)
      BY <1>1, <2>1, <2>2 DEF IInv, CallInv, OnlyOwn, In
    <3>2. e = Entry(dir[c], e.file, c)
      BY <1>1, <3>1 DEF IInv, TypeOK, Entry
    <3> QED
      BY <3>1, <3>2
  <2>3. ASSUME NEW f \in FilesOf(c)
        PROVE Entry(dir[c], f, c) \in {e \in In(dir[c]) : e.file \notin {".", "states"}}
    <3>1. Entry(dir[c], f, c) \in tree
      BY <1>1, <2>1 DEF IInv, CallInv, AllWritten
    <3>2. f \notin {".", "states"}
      BY TlcCheckAssumption DEF FilesOf
    <3> QED
      BY <3>1, <3>2 DEF In, Entry
  <2> QED
    BY <2>2, <2>3
<1> QED
  BY <1>1, InvCorrect, PTL

\* Whatever is in the temporary directory is of a call on its way, of one
\* that was killed, or of one whose removal failed.
THEOREM NothingOfTheReturned == Spec => []OnlyTheDeadLeave
<1>1. IInv => OnlyTheDeadLeave
  BY DEF IInv
<1> QED
  BY <1>1, InvCorrect, PTL
-----------------------------------------------------------------------------
(***************************************************************************)
(* Results: what check returns is read off what TLC printed.               *)
(***************************************************************************)
\* The messages of what came back from the TLC of a call.
Printed(c) == ParseLines(Collected(out[c])).msgs

\* A call has a result only when its TLC has ended, and that one.
Told(c) ==
  /\ pc[c] \in {"idle", "clear", "create", "files", "wait"} => result[c] = NoResult
  /\ tlc[c] = "ended" => out[c] \in Outcomes[c]
  /\ result[c].status \notin {"none", "error"} =>
       tlc[c] = "ended" /\ result[c] = RunResult(Printed(c), ExitCode(out[c]))

\* Told of every call; with IInv it is inductive.
RInv == /\ DOMAIN result = Calls /\ DOMAIN out = Calls
        /\ result = [c \in Calls |-> result[c]] /\ out = [c \in Calls |-> out[c]]
        /\ \A c \in Calls : Told(c)

LEMMA NoVerdictYet == /\ ~(NoResult.status \notin {"none", "error"})
                      /\ ~(Error.status \notin {"none", "error"})
BY DEF NoResult, Error

LEMMA InitTold == Init => RInv
BY NoVerdictYet DEF Init, RInv, Told

LEMMA SameTold ==
  ASSUME NEW c \in Calls, Told(c),
         pc'[c] \in {"idle", "clear", "create", "files", "wait"}
            => pc[c] \in {"idle", "clear", "create", "files", "wait"},
         tlc'[c] = tlc[c], out'[c] = out[c], result'[c] = result[c]
  PROVE  Told(c)'
BY DEF Told, Printed

\* An error is nothing that TLC said.
LEMMA ErrorTold ==
  ASSUME NEW c \in Calls, Told(c), pc'[c] \in {"drop", "done"},
         tlc'[c] = tlc[c], out'[c] = out[c], result'[c] = Error
  PROVE  Told(c)'
BY NoVerdictYet DEF Told

LEMMA NextTold == IInv /\ RInv /\ [Next]_vars => RInv'
<1> SUFFICES ASSUME IInv, RInv, [Next]_vars PROVE RInv'
  OBVIOUS
<1>1. /\ pc \in [Calls -> Places] /\ tlc \in [Calls -> {"none", "running", "ended"}]
      /\ DOMAIN result = Calls /\ DOMAIN out = Calls
      /\ result = [c \in Calls |-> result[c]] /\ out = [c \in Calls |-> out[c]]
      /\ \A c \in Calls : Told(c)
  BY DEF IInv, TypeOK, RInv
<1>2. CASE UNCHANGED vars
  BY <1>2, SameTold DEF vars, RInv
<1>3. ASSUME NEW p \in Procs, Start(p) PROVE RInv'
  BY <1>3, SameTold DEF Start, RInv
<1>4. ASSUME NEW p \in Procs, Crash(p) PROVE RInv'
  <2>1. /\ \A c \in Calls : pc'[c] \in {pc[c], "gone"}
        /\ UNCHANGED <<tlc, out, result>>
    BY <1>1, <1>4 DEF Crash
  <2>2. \A c \in Calls : Told(c)'
    BY <1>1, <2>1, SameTold
  <2> QED
    BY <1>1, <2>1, <2>2 DEF RInv
<1>5. ASSUME NEW c \in Calls,
             Claim(c) \/ Clear(c) \/ Drop(c) \/ WriteStates(c)
      PROVE  RInv'
  <2>1. UNCHANGED <<tlc, out, result>>
    BY <1>5 DEF Claim, Clear, Drop, WriteStates
  <2>2. ASSUME NEW d \in Calls PROVE Told(d)'
    <3>1. pc'[d] \in {"idle", "clear", "create", "files", "wait"}
            => pc[d] \in {"idle", "clear", "create", "files", "wait"}
      BY <1>1, <1>5 DEF Claim, Clear, Drop, WriteStates, GoTo, At
    <3> QED
      BY <1>1, <2>1, <3>1, SameTold
  <2> QED
    BY <1>1, <2>1, <2>2 DEF RInv
<1>6. ASSUME NEW c \in Calls, UNCHANGED <<tlc, out>>,
             pc[c] \in {"idle", "clear", "create", "files", "wait"},
             \/ pc'[c] \in {"drop", "done"} /\ Return(c, Error)
             \/ UNCHANGED result,
             \A d \in Calls \ {c} : pc'[d] = pc[d]
      PROVE  RInv'
  <2>1. /\ DOMAIN result' = Calls /\ result' = [d \in Calls |-> result'[d]]
        /\ \A d \in Calls \ {c} : result'[d] = result[d]
        /\ \/ pc'[c] \in {"drop", "done"} /\ result'[c] = Error
           \/ result'[c] = result[c]
    BY <1>1, <1>6 DEF Return
  <2>2. Told(c)'
    BY <1>1, <1>6, <2>1, SameTold, ErrorTold
  <2>3. \A d \in Calls \ {c} : Told(d)'
    BY <1>1, <1>6, <2>1, SameTold
  <2> QED
    BY <1>1, <1>6, <2>1, <2>2, <2>3 DEF RInv
<1>7. ASSUME NEW c \in Calls, Reject(c) \/ Create(c) PROVE RInv'
  BY <1>1, <1>6, <1>7 DEF Reject, Create, At, GoTo
<1>8. ASSUME NEW c \in Calls, NEW f \in FilesOf(c), WriteFile(c, f) PROVE RInv'
  BY <1>1, <1>6, <1>8 DEF WriteFile, Fail, At, GoTo
<1>9. ASSUME NEW c \in Calls, Spawn(c) PROVE RInv'
  <2>1. CASE Fail(c) /\ UNCHANGED tlc
    BY <1>1, <1>6, <1>9, <2>1 DEF Spawn, Fail, At, GoTo
  <2>2. CASE tlc' = [tlc EXCEPT ![c] = "running"] /\ GoTo(c, "wait") /\ UNCHANGED result
    <3>1. /\ pc[c] = "files" /\ result[c] = NoResult /\ UNCHANGED <<out, result>>
          /\ \A d \in Calls \ {c} : pc'[d] = pc[d] /\ tlc'[d] = tlc[d]
          /\ tlc'[c] = "running"
      BY <1>1, <1>9, <2>2 DEF Spawn, At, GoTo, Told
    <3>2. Told(c)'
      BY <3>1, NoVerdictYet DEF Told
    <3>3. \A d \in Calls \ {c} : Told(d)'
      BY <1>1, <3>1, SameTold
    <3> QED
      BY <1>1, <3>1, <3>2, <3>3 DEF RInv
  <2> QED
    BY <1>9, <2>1, <2>2 DEF Spawn
<1>10. ASSUME NEW c \in Calls, Collect(c) PROVE RInv'
  <2>1. /\ tlc[c] = "ended" /\ pc'[c] = "drop" /\ UNCHANGED <<tlc, out>>
        /\ result' = [result EXCEPT ![c] = RunResult(Printed(c), ExitCode(out[c]))]
        /\ \A d \in Calls \ {c} : pc'[d] = pc[d]
    BY <1>1, <1>10 DEF Collect, At, GoTo, Return, Printed
  <2>2. /\ DOMAIN result' = Calls /\ result' = [d \in Calls |-> result'[d]]
        /\ \A d \in Calls \ {c} : result'[d] = result[d]
        /\ result'[c] = RunResult(Printed(c), ExitCode(out[c]))
    BY <1>1, <2>1
  <2>3. Told(c)'
    BY <1>1, <2>1, <2>2 DEF Told, Printed
  <2>4. \A d \in Calls \ {c} : Told(d)'
    BY <1>1, <2>1, <2>2, SameTold
  <2> QED
    BY <1>1, <2>1, <2>2, <2>3, <2>4 DEF RInv
<1>11. ASSUME NEW c \in Calls, End(c) PROVE RInv'
  <2>1. PICK o \in Outcomes[c] : out' = [out EXCEPT ![c] = o]
    BY <1>11 DEF End
  <2>2. /\ tlc[c] = "running" /\ UNCHANGED <<pc, result>>
        /\ out'[c] = o /\ DOMAIN out' = Calls /\ out' = [d \in Calls |-> out'[d]]
        /\ \A d \in Calls \ {c} : tlc'[d] = tlc[d] /\ out'[d] = out[d]
    BY <1>1, <1>11, <2>1 DEF End
  <2>3. Told(c)'
    BY <1>1, <2>1, <2>2 DEF Told
  <2>4. \A d \in Calls \ {c} : Told(d)'
    BY <1>1, <2>2, SameTold
  <2> QED
    BY <1>1, <2>2, <2>3, <2>4 DEF RInv
<1> QED
  BY <1>2, <1>3, <1>4, <1>5, <1>7, <1>8, <1>9, <1>10, <1>11 DEF Next, Step

\* The lines of stderr at the end are in no message.
LEMMA NoiseIsIgnored ==
  ASSUME NEW lines \in Body, NEW k \in Nat
  PROVE  /\ lines \o [i \in 1..k |-> Noise] \in Body
         /\ ParseLines(lines \o [i \in 1..k |-> Noise]).msgs = ParseLines(lines).msgs
<1> DEFINE noise(n) == [i \in 1..n |-> Noise]
           more(n) == lines \o noise(n)
           T == {n \in 0..k : /\ more(n) \in Body
                              /\ ParseLines(more(n)).msgs = ParseLines(lines).msgs}
<1>1. Noise \in Line /\ Noise.kind = "text"
  BY TlcCheckAssumption DEF Noise, TextLine
<1>2. 0 \in T
  <2>1. noise(0) = <<>>
    OBVIOUS
  <2>2. more(0) = lines
    BY <2>1, ConcatEmptySeq DEF Body
  <2> HIDE DEF more
  <2> QED
    BY <2>2
<1>3. ASSUME NEW n \in 1..k, n - 1 \in T PROVE n \in T
  <2>1. more(n - 1) \in Body /\ ParseLines(more(n - 1)).msgs = ParseLines(lines).msgs
    BY <1>3
  <2>2. more(n) = Append(more(n - 1), Noise)
    <3>1. noise(n) = Append(noise(n - 1), Noise)
      OBVIOUS
    <3>2. noise(n - 1) \in Seq(Line) /\ lines \in Seq(Line)
      BY <1>1 DEF Body
    <3> HIDE DEF noise
    <3> QED
      BY <1>1, <3>1, <3>2
  <2> HIDE DEF more
  <2>3. ParseLines(more(n)) = Feed(ParseLines(more(n - 1)), Noise)
    BY <1>1, <2>1, <2>2, ParseOneMore
  <2>4. Follows(ParseLines(more(n - 1)), more(n - 1))
    BY <2>1, ParseFollows
  <2>5. Feed(ParseLines(more(n - 1)), Noise).msgs = ParseLines(more(n - 1)).msgs
    BY <1>1, <2>4 DEF Feed, Follows
  <2>6. more(n) \in Body
    BY <1>1, <2>1, <2>2 DEF Body
  <2> QED
    BY <2>1, <2>3, <2>5, <2>6
<1> HIDE DEF T
<1>4. \A n \in 0..k : n \in T
  BY <1>2, <1>3, UpTo
<1>5. k \in T
  BY <1>4
<1> QED
  BY <1>5 DEF T

LEMMA CollectedIsIntact ==
  ASSUME NEW o \in Output
  PROVE  ParseLines(Collected(o)).msgs = FramedMessages(Intact(o))
<1> DEFINE noise(n) == [i \in 1..n |-> Noise]
<1>1. o.lines \in Body /\ o.stderr \in Nat
  BY DEF Output, Body
<1>2. Front(o.lines) \in Body
  <2>1. CASE o.lines = <<>>
    <3>1. SubSeq(o.lines, 1, Len(o.lines) - 1) = <<>>
      BY <2>1, SubSeqEmpty
    <3> QED
      BY <3>1 DEF Front, Body
  <2>2. CASE o.lines # <<>>
    <3>1. Len(o.lines) - 1 \in 0..Len(o.lines) /\ 1 \in 1..(Len(o.lines) + 1)
      BY <1>1, <2>2 DEF Body
    <3> QED
      BY <1>1, <3>1, SubSeqOfAppend, TlcCheckAssumption DEF Front
  <2> QED
    BY <2>1, <2>2
<1>3. Intact(o) \in Body
  BY <1>1, <1>2 DEF Intact
<1>4. \E k \in Nat : Collected(o) = Intact(o) \o noise(k)
  BY <1>1 DEF Collected, Intact
<1>5. ParseLines(Collected(o)).msgs = ParseLines(Intact(o)).msgs
  BY <1>3, <1>4, NoiseIsIgnored
<1> QED
  BY <1>3, <1>5, MessagesAreFramed

\* rust/README.md:3-4: what a call returns is read off the messages that its
\* TLC has printed, a verdict only of a TLC that has printed them all, and
\* the status is that of the Go package but for an exit code that is not
\* listed and comes with errors.
THEOREM ResultsAreSaid == Spec => []ResultIsWhatTLCSaid
<1>1. ASSUME RInv PROVE ResultIsWhatTLCSaid
  <2> SUFFICES ASSUME NEW c \in Calls, result[c].status \notin {"none", "error"}
      PROVE LET r    == result[c]
                msgs == FramedMessages(Intact(out[c]))
            IN  /\ r.found = Interpret(msgs)
                /\ r.status \in {"success", "assumption", "deadlock", "safety", "liveness"}
                     => out[c].whole
                /\ r.status = NewResult(msgs, ExitCode(out[c])).status
                     <=> ~(r.status = "unknown" /\ r.found.errors > 0)
    BY DEF ResultIsWhatTLCSaid
  <2> DEFINE o == out[c]
             msgs == FramedMessages(Intact(o))
             r == result[c]
             code == ExitCode(o)
  <2>1. o \in Outcomes[c] /\ r = RunResult(Printed(c), code)
    BY <1>1 DEF RInv, Told
  <2>2. o \in Output
    BY <2>1, TlcCheckAssumption
  <2>3. Printed(c) = msgs
    BY <2>2, CollectedIsIntact DEF Printed
  <2>4. r.status = StatusFromExitCode(code) /\ r.found = Interpret(msgs)
    BY <2>1, <2>3 DEF RunResult
  <2>5. code \in Int /\ (o.signal => code = -1) /\ (~o.signal => code = o.code)
    BY <2>2 DEF ExitCode, Output
  <2> HIDE DEF msgs, code
  <2>6. StatusFromExitCode(code) \in {"success", "assumption", "deadlock", "safety", "liveness"}
          => code \in {0, 10, 11, 12, 13}
    BY <2>5 DEF StatusFromExitCode
  <2>7. code \in {0, 10, 11, 12, 13} => o.whole
    BY <2>1, <2>5, TlcCheckAssumption
  <2>8. NewResult(msgs, code).status =
          IF StatusFromExitCode(code) = "unknown" /\ Interpret(msgs).errors > 0 THEN "failure"
          ELSE StatusFromExitCode(code)
    BY DEF NewResult
  <2> QED
    BY <2>4, <2>6, <2>7, <2>8 DEF msgs, code
<1>2. Init => IInv /\ RInv
  BY InitInv, InitTold
<1>3. IInv /\ RInv /\ [Next]_vars => (IInv /\ RInv)'
  BY Invariance, NextTold
<1> QED
  BY <1>1, <1>2, <1>3, PTL DEF Spec
=============================================================================
