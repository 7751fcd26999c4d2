------------------------------ MODULE JarCache ------------------------------
(***************************************************************************)
(* tlc/run.go, FindJar, DownloadJar and EnsureJar: processes that share a  *)
(* home directory look for tla2tools.jar and, when none is found, download *)
(* it to a temporary file in the directory of the destination and rename   *)
(* it.  A download may fail at any byte and a process may die at any step. *)
(* A jar is what was served (one of Versions) as far as it was written:    *)
(* Size chunks make it whole.                                              *)
(***************************************************************************)
EXTENDS Naturals

CONSTANTS Procs, Versions, Absent,
          Size  \* chunks of a whole jar

ASSUME JarCacheAssumption == Size \in Nat \ {0} /\ Absent \notin Versions

VARIABLES stage,     \* per process: where it is in EnsureJar
          served,    \* per process: the version its request is answered with
          temp,      \* per process: the temporary file it created, if any
          kept,      \* processes whose temporary file could not be removed
          dest,      \* ~/.tlacuilo/tla2tools.jar
          elsewhere  \* another candidate of FindJar exists

jarVars == <<stage, served, temp, kept, dest, elsewhere>>

NoFile == [version |-> Absent, size |-> 0]

File(v, n) == [version |-> v, size |-> n]

WholeJar(f) == f.version \in Versions /\ f.size = Size

JarInit == /\ stage = [p \in Procs |-> "find"]
           /\ served \in [Procs -> Versions]
           /\ temp = [p \in Procs |-> NoFile]
           /\ kept = {}
           /\ dest \in {NoFile} \cup {File(v, Size) : v \in Versions}
           /\ elsewhere \in BOOLEAN

Goto(p, place) == stage' = [stage EXCEPT ![p] = place]

\* The first candidate that exists and is not a directory.
FindJar(p) ==
  /\ stage[p] = "find"
  /\ Goto(p, IF elsewhere \/ dest # NoFile THEN "found" ELSE "get")
  /\ UNCHANGED <<served, temp, kept, dest, elsewhere>>

\* GET, its status, MkdirAll and CreateTemp.
Request(p) ==
  /\ stage[p] = "get"
  /\ \/ /\ Goto(p, "copy")
        /\ temp' = [temp EXCEPT ![p] = File(served[p], 0)]
     \/ Goto(p, "failed") /\ UNCHANGED temp
  /\ UNCHANGED <<served, kept, dest, elsewhere>>

\* Mutant: the error of io.Copy is ignored.
CopyIgnoresError(p) ==
  /\ stage[p] = "copy"
  /\ \/ /\ temp[p].size < Size
        /\ temp' = [temp EXCEPT ![p].size = @ + 1]
        /\ UNCHANGED stage
     \/ Goto(p, "rename") /\ UNCHANGED temp
  /\ UNCHANGED <<served, kept, dest, elsewhere>>

\* io.Copy, a chunk at a time, and Close; either may fail.
Copy(p) ==
  /\ stage[p] = "copy"
  /\ \/ /\ temp[p].size < Size
        /\ temp' = [temp EXCEPT ![p].size = @ + 1]
        /\ UNCHANGED stage
     \/ /\ temp[p].size = Size
        /\ Goto(p, "rename") /\ UNCHANGED temp
     \/ Goto(p, "clean") /\ UNCHANGED temp
  /\ UNCHANGED <<served, kept, dest, elsewhere>>

\* Mutant: the old jar is removed before the new one is renamed to it.
RenameAfterRemove(p) ==
  /\ stage[p] = "rename"
  /\ IF dest # NoFile
     THEN dest' = NoFile /\ UNCHANGED <<temp, stage>>
     ELSE dest' = temp[p] /\ temp' = [temp EXCEPT ![p] = NoFile] /\ Goto(p, "found")
  /\ UNCHANGED <<served, kept, elsewhere>>

\* os.Rename replaces the destination in one step, or fails.
Rename(p) ==
  /\ stage[p] = "rename"
  /\ \/ /\ dest' = temp[p]
        /\ temp' = [temp EXCEPT ![p] = NoFile]
        /\ Goto(p, "found")
     \/ Goto(p, "clean") /\ UNCHANGED <<dest, temp>>
  /\ UNCHANGED <<served, kept, elsewhere>>

\* Mutant: the temporary file stays.
RemoveTempNot(p) ==
  /\ stage[p] = "clean"
  /\ Goto(p, "failed")
  /\ UNCHANGED <<served, temp, kept, dest, elsewhere>>

\* defer os.Remove(f.Name()), whose error nobody looks at.
RemoveTemp(p) ==
  /\ stage[p] = "clean"
  /\ \/ temp' = [temp EXCEPT ![p] = NoFile] /\ UNCHANGED kept
     \/ kept' = kept \cup {p} /\ UNCHANGED temp
  /\ Goto(p, "failed")
  /\ UNCHANGED <<served, dest, elsewhere>>

Return(p) ==
  /\ stage[p] \in {"found", "failed"}
  /\ Goto(p, IF stage[p] = "found" THEN "path" ELSE "error")
  /\ UNCHANGED <<served, temp, kept, dest, elsewhere>>

Die(p) == /\ stage[p] \notin {"path", "error", "dead"}
          /\ Goto(p, "dead")
          /\ UNCHANGED <<served, temp, kept, dest, elsewhere>>

Step(p) == \/ FindJar(p) \/ Request(p) \/ Copy(p) \/ Rename(p)
           \/ RemoveTemp(p) \/ Return(p)

JarNext == \E p \in Procs : Step(p) \/ Die(p)

JarSpec == JarInit /\ [][JarNext]_jarVars
-----------------------------------------------------------------------------
Stages == {"find", "get", "copy", "rename", "clean", "found", "failed",
           "path", "error", "dead"}

Files == [version: Versions \cup {Absent}, size: 0..Size]

\* The values the variables range over.
JarTypeOK == /\ stage \in [Procs -> Stages]
             /\ served \in [Procs -> Versions]
             /\ temp \in [Procs -> Files]
             /\ kept \subseteq Procs
             /\ dest \in Files
             /\ elsewhere \in BOOLEAN

\* Nobody ever sees a partial jar at the destination, whichever downloads
\* run side by side, fail or die, and a path is returned only to a jar.
NeverPartial ==
  /\ dest # NoFile => WholeJar(dest)
  /\ \A p \in Procs : stage[p] \in {"found", "path"} => elsewhere \/ WholeJar(dest)

\* A process that has returned, or that has not begun to download, has no
\* temporary file in the directory: only one that died leaves its own, and
\* one whose removal the file system refused.
TempsAreRemoved ==
  \A p \in Procs :
    temp[p] # NoFile => p \in kept \/ stage[p] \in {"copy", "rename", "clean", "dead"}

A == INSTANCE AtomicCache
       WITH cache <- dest.version,
            answer <- [p \in Procs |-> IF stage[p] \in {"path", "error"} THEN stage[p]
                                       ELSE "none"]

\* To the processes, the downloads and renames are one cache that changes
\* from version to version in single steps.
CacheIsAtomic == A!Spec
=============================================================================
