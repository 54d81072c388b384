--------------------------- MODULE TempFiles_proofs ---------------------------
(***************************************************************************)
(* Proofs about TempFiles, for any jobs, files and number of tries.         *)
(***************************************************************************)
EXTENDS TempFiles, TLAPS

(***************************************************************************)
(* What a job is stays as it is; where it is changes with its own steps.   *)
(***************************************************************************)
Places == Running \cup Ends \cup {"new"}

Base ==
  /\ does \in [Jobs -> Shapes]
  /\ pc \in [Jobs -> Places]
  /\ at \in [Jobs -> Nat]
  /\ remote \subseteq Sources
  /\ reached \subseteq Jobs

LEMMA InitBase == Init => Base
  BY DEF Init, Base, Places

\* A step of one job leaves the places of the others alone.
Steps(j) ==
  \/ Begin(j) \/ OpenRaises(j) \/ StatRemote(j) \/ OpenLocal(j) \/ NothingToOpen(j)
  \/ Enter(j) \/ Cut(j) \/ UseFile(j) \/ PostYtVideo(j) \/ Upload(j)
  \/ RemoveLocal(j) \/ RemoveRemote(j) \/ Finish(j)
  \/ DumpDb(j) \/ SendDumpFile(j) \/ Dies(j)

LEMMA StepMoves ==
  ASSUME Base, NEW j \in Jobs, Steps(j)
  PROVE  /\ \E s \in Places : pc' = [pc EXCEPT ![j] = s]
         /\ \E n \in Nat : at' = [at EXCEPT ![j] = n]
         /\ does' = does
<1> USE DEF Base, Go, Places, Running, Holding, Ends
<1>0. at[j] \in Nat /\ at = [at EXCEPT ![j] = at[j]]
  OBVIOUS
<1>1. CASE Begin(j)
  BY <1>0, <1>1 DEF Begin
<1>2. CASE OpenRaises(j) \/ StatRemote(j) \/ OpenLocal(j) \/ NothingToOpen(j) \/ Enter(j)
           \/ Cut(j) \/ UseFile(j) \/ Upload(j) \/ Dies(j)
  BY <1>0, <1>2 DEF OpenRaises, StatRemote, OpenLocal, NothingToOpen, Enter, Cut, UseFile,
                    Upload, Dies
<1>3. CASE PostYtVideo(j) \/ Finish(j)
  BY <1>0, <1>3 DEF PostYtVideo, Finish
<1>4. ASSUME Leave(j)
      PROVE  /\ \E s \in Places : pc' = [pc EXCEPT ![j] = s]
             /\ \E n \in Nat : at' = [at EXCEPT ![j] = n]
  <2>1. \E s \in {"raised", "opening", "finishing"} : pc' = [pc EXCEPT ![j] = s]
    BY <1>4 DEF Leave
  <2>2. \E n \in {at[j], at[j] + 1} : at' = [at EXCEPT ![j] = n]
    BY <1>4 DEF Leave
  <2>3. at[j] + 1 \in Nat
    BY <1>0
  <2>4. QED
    BY <1>0, <2>1, <2>2, <2>3
<1>5. CASE RemoveLocal(j) \/ RemoveRemote(j)
  BY <1>0, <1>4, <1>5 DEF RemoveLocal, RemoveRemote
<1>6. CASE DumpDb(j) \/ SendDumpFile(j)
  BY <1>0, <1>6 DEF DumpDb, SendDumpFile, Again
<1>7. QED
  BY <1>1, <1>2, <1>3, <1>5, <1>6 DEF Steps

\* Files at SFTP and S3 only go, and jobs that had one keep having had it.
LEMMA StepSources ==
  ASSUME NEW j \in Jobs, Steps(j)
  PROVE  /\ remote' \subseteq remote
         /\ reached \subseteq reached' /\ reached' \subseteq reached \cup Jobs
  BY DEF Steps, Begin, OpenRaises, StatRemote, OpenLocal, NothingToOpen, Enter, Cut, UseFile,
         PostYtVideo, Upload, RemoveLocal, RemoveRemote, Finish, DumpDb, SendDumpFile, Dies

LEMMA NextBase == ASSUME Base, [Next]_vars
                  PROVE  Base'
<1>1. CASE UNCHANGED vars
  BY <1>1 DEF vars, Base
<1>2. ASSUME NEW j \in Jobs, Steps(j)
      PROVE  Base'
  BY <1>2, StepMoves, StepSources DEF Base
<1>3. QED
  BY <1>1, <1>2 DEF Next, Steps

LEMMA ShapeOf ==
  ASSUME Base, NEW j \in Jobs
  PROVE  /\ does[j].media \in Seq({"photo", "video", "doc"})
         /\ Len(does[j].media) \in Nat
         /\ Source(j) \in Sources
         /\ Kind(j) \notin Messages =>
              Len(does[j].media) = 1 /\ does[j].media # <<>>
         /\ Kind(j) = "dump" => does[j].media = <<"doc">>
<1>1. /\ does[j].media \in Seq({"photo", "video", "doc"})
      /\ Len(does[j].media) \in Nat
      /\ Source(j) \in Sources
      /\ Kind(j) \notin Messages => Len(does[j].media) = 1
      /\ Kind(j) = "dump" => does[j].media = <<"doc">>
  BY ShapesAssumption DEF Base, Kind, Source
<1>2. ASSUME NEW m, Len(m) = 1
      PROVE  m # <<>>
  BY <1>2
<1>3. Kind(j) \notin Messages => does[j].media # <<>>
  BY <1>1, <1>2
<1>4. QED
  BY <1>1, <1>3

(***************************************************************************)
(* The files.  Nobody but its job ends the time of a file, and a job that  *)
(* goes on to another file, or to its end, has removed the one it had, or  *)
(* ends where the property allows it.                                      *)
(***************************************************************************)
Keeping == Holding \cup {"cut", "left", "lost"}

\* A step puts no file on the disk but the job's own, and the job keeps it.
LEMMA StepDisk ==
  ASSUME Base, NEW j \in Jobs, Steps(j)
  PROVE  \/ disk' \subseteq disk \cup {Local(j)} /\ at' = at
            /\ pc'[j] \in Keeping
         \/ disk' \subseteq disk /\ pc[j] \notin Keeping
         \/ disk' = disk \ {Local(j)}
<1> USE DEF Base, Go, Keeping, Holding
<1>1. CASE Begin(j) \/ OpenRaises(j) \/ StatRemote(j) \/ NothingToOpen(j) \/ Finish(j)
  BY <1>1 DEF Begin, OpenRaises, StatRemote, NothingToOpen, Finish
<1>2. CASE OpenLocal(j) \/ Enter(j) \/ Cut(j) \/ UseFile(j) \/ Upload(j) \/ Dies(j)
  BY <1>2 DEF OpenLocal, Enter, Cut, UseFile, Upload, Dies, OnDisk, Running
<1>3. CASE PostYtVideo(j)
  BY <1>3 DEF PostYtVideo
<1>4. CASE RemoveLocal(j)
  BY <1>4 DEF RemoveLocal
<1>5. CASE RemoveRemote(j)
  BY <1>5 DEF RemoveRemote
<1>6. CASE DumpDb(j) \/ SendDumpFile(j)
  BY <1>6 DEF DumpDb, SendDumpFile, Again, OnDisk
<1>7. QED
  BY <1>1, <1>2, <1>3, <1>4, <1>5, <1>6 DEF Steps

LEMMA StepFiles ==
  ASSUME Base, FilesAreAccountedFor, NEW j \in Jobs, Steps(j)
  PROVE  FilesAreAccountedFor'
<1>1. /\ does' = does
      /\ \A i \in Jobs \ {j} : pc'[i] = pc[i] /\ at'[i] = at[i]
  BY StepMoves DEF Base
<1>2. \A i \in Jobs \ {j} : Local(i)' = Local(i)
  BY <1>1 DEF Local, Kind, Source
<1>3. at' = at => Local(j)' = Local(j)
  BY <1>1 DEF Local, Kind, Source
<1>4. SUFFICES ASSUME NEW f \in disk'
               PROVE  \E i \in Jobs : Local(i)' = f /\ pc'[i] \in Keeping
  BY DEF FilesAreAccountedFor, Keeping
<1>5. f \in disk => \E i \in Jobs : Local(i) = f /\ pc[i] \in Keeping
  BY DEF FilesAreAccountedFor, Keeping
<1>6. CASE disk' \subseteq disk \cup {Local(j)} /\ at' = at /\ pc'[j] \in Keeping
  BY <1>1, <1>2, <1>3, <1>4, <1>5, <1>6
<1>7. CASE disk' \subseteq disk /\ pc[j] \notin Keeping
  BY <1>1, <1>2, <1>4, <1>5, <1>7
<1>8. CASE disk' = disk \ {Local(j)}
  BY <1>1, <1>2, <1>4, <1>5, <1>8
<1>9. QED
  BY <1>6, <1>7, <1>8, StepDisk

\* For any jobs: a file on the disk belongs to a job at work, or to one that was cut
\* short while it wrote, died, or ended before the os.remove it has no with block for.
THEOREM FilesAccounted == Spec => []FilesAreAccountedFor
<1>1. Init => FilesAreAccountedFor
  BY DEF Init, FilesAreAccountedFor
<1>2. ASSUME Base, FilesAreAccountedFor, [Next]_vars
      PROVE  FilesAreAccountedFor'
  <2>1. CASE UNCHANGED vars
    BY <1>2, <2>1 DEF vars, FilesAreAccountedFor, Local, Kind, Source
  <2>2. QED
    BY <1>2, <2>1, StepFiles DEF Next, Steps
<1>3. QED
  BY <1>1, <1>2, InitBase, NextBase, PTL DEF Spec

(***************************************************************************)
(* The originals.  A job that comes to remove one has had it, and an SFTP  *)
(* post that is past its removal has made it: nobody else can then.        *)
(***************************************************************************)
Had ==
  \A j \in Jobs :
    /\ pc[j] \in {"dumping", "mailing"} => Kind(j) = "dump"
    /\ pc[j] \in {"inside", "removing", "cleaning"} => j \in reached \/ Kind(j) = "dump"
    /\ pc[j] = "cleaning" => Kind(j) \in Fetched

Past(j) == Kind(j) = "sftp" /\ pc[j] \in {"finishing", "done"}

OnePast ==
  /\ \A j \in Jobs : Past(j) => Source(j) \notin remote
  /\ \A j, k \in Jobs : Past(j) /\ Past(k) /\ Source(j) = Source(k) => j = k

Originals == Had /\ SourceIsKept /\ OnePast

\* A job comes to a body with its file, and from there to the removals.
LEMMA StepHad ==
  ASSUME Base, Had, NEW j \in Jobs, Steps(j)
  PROVE  Had'
<1> USE DEF Base, Go
<1>1. /\ does' = does /\ reached \subseteq reached'
      /\ \A i \in Jobs \ {j} : pc'[i] = pc[i]
  BY StepMoves, StepSources
<1>2. /\ pc'[j] \in {"dumping", "mailing"} => Kind(j) = "dump"
      /\ pc'[j] \in {"inside", "removing", "cleaning"} => j \in reached' \/ Kind(j) = "dump"
      /\ pc'[j] = "cleaning" => Kind(j) \in Fetched
  <2>1. CASE Begin(j) \/ OpenRaises(j) \/ StatRemote(j) \/ OpenLocal(j) \/ NothingToOpen(j)
             \/ Cut(j) \/ PostYtVideo(j) \/ Finish(j) \/ Dies(j)
    BY <2>1 DEF Begin, OpenRaises, StatRemote, OpenLocal, NothingToOpen, Cut, PostYtVideo,
                Finish, Dies
  <2>2. CASE Enter(j) \/ UseFile(j) \/ Upload(j)
    BY <2>2 DEF Enter, UseFile, Upload, Had
  <2>3. CASE RemoveLocal(j) \/ RemoveRemote(j)
    BY <2>3 DEF RemoveLocal, RemoveRemote, Leave, Had
  <2>4. CASE DumpDb(j) \/ SendDumpFile(j)
    BY <2>4 DEF DumpDb, SendDumpFile, Again, Had
  <2>5. QED
    BY <2>1, <2>2, <2>3, <2>4 DEF Steps
<1>3. QED
  BY <1>1, <1>2 DEF Had, Kind

\* Only a job that had an original removes it; for an SFTP post this is how it gets on.
LEMMA StepRemoves ==
  ASSUME Base, NEW j \in Jobs, Steps(j)
  PROVE  /\ \/ remote' = remote
            \/ pc[j] = "cleaning" /\ remote' = remote \ {Source(j)}
         /\ Kind(j) = "sftp" /\ pc'[j] \in {"finishing", "done"} =>
              \/ pc[j] = "finishing"
              \/ Source(j) \in remote /\ remote' = remote \ {Source(j)}
<1> USE DEF Base, Go
<1>1. CASE Begin(j)
  <2>1. Kind(j) = "sftp" => does[j].media # <<>>
    BY ShapeOf DEF Messages
  <2>2. QED
    BY <1>1, <2>1 DEF Begin
<1>2. CASE OpenRaises(j) \/ StatRemote(j) \/ OpenLocal(j) \/ NothingToOpen(j) \/ Enter(j)
           \/ Cut(j) \/ UseFile(j) \/ Upload(j) \/ Dies(j)
  BY <1>2 DEF OpenRaises, StatRemote, OpenLocal, NothingToOpen, Enter, Cut, UseFile, Upload,
              Dies
<1>3. CASE PostYtVideo(j) \/ Finish(j)
  BY <1>3 DEF PostYtVideo, Finish
<1>4. CASE RemoveLocal(j)
  BY <1>4 DEF RemoveLocal, Leave, Fetched
<1>5. CASE RemoveRemote(j)
  BY <1>5 DEF RemoveRemote, Leave, RemoteHas
<1>6. CASE DumpDb(j) \/ SendDumpFile(j)
  BY <1>6 DEF DumpDb, SendDumpFile, Again
<1>7. QED
  BY <1>1, <1>2, <1>3, <1>4, <1>5, <1>6 DEF Steps

LEMMA StepOriginals ==
  ASSUME Base, Originals, NEW j \in Jobs, Steps(j)
  PROVE  Originals'
<1>1. /\ does' = does /\ remote' \subseteq remote /\ reached \subseteq reached'
      /\ \A i \in Jobs \ {j} : pc'[i] = pc[i]
  BY StepMoves, StepSources DEF Base
<1>2. \A i \in Jobs : Kind(i)' = Kind(i) /\ Source(i)' = Source(i)
  BY <1>1 DEF Kind, Source
<1>3. SourceIsKept'
  <2>1. SUFFICES ASSUME NEW r \in Sources, r \notin remote'
                 PROVE  \E i \in reached' : Source(i)' = r
    BY DEF SourceIsKept
  <2>2. CASE r \notin remote
    BY <1>1, <1>2, <2>2 DEF Originals, SourceIsKept, Base
  <2>3. CASE r \in remote
    <3>1. pc[j] = "cleaning" /\ r = Source(j)
      BY <2>1, <2>3, StepRemoves
    <3>2. j \in reached
      BY <3>1 DEF Originals, Had, Fetched
    <3>3. QED
      BY <1>1, <1>2, <3>1, <3>2
  <2>4. QED
    BY <2>2, <2>3
<1>4. OnePast'
  <2>1. \A i \in Jobs \ {j} : Past(i)' => Past(i)
    BY <1>1, <1>2 DEF Past
  <2>2. CASE Past(j)' => Past(j)
    <3>1. \A i \in Jobs : Past(i)' => Past(i)
      BY <2>1, <2>2
    <3>2. QED
      BY <1>1, <1>2, <3>1 DEF Originals, OnePast
  <2>3. CASE Source(j) \in remote /\ remote' = remote \ {Source(j)}
    <3>1. \A i \in Jobs : Past(i) => Source(i) # Source(j)
      BY <2>3 DEF Originals, OnePast
    <3>2. \A i \in Jobs \ {j} : Past(i)' => Source(i) # Source(j)
      BY <2>1, <3>1
    <3>3. QED
      BY <1>1, <1>2, <2>1, <2>3, <3>2 DEF Originals, OnePast
  <2>4. QED
    BY <1>2, <2>2, <2>3, StepRemoves DEF Past
<1>5. QED
  BY <1>3, <1>4, StepHad DEF Originals

LEMMA AlwaysOriginals == Spec => []Originals
<1>1. Init => Originals
  BY DEF Init, Originals, Had, SourceIsKept, OnePast, Past
<1>2. ASSUME Base, Originals, [Next]_vars
      PROVE  Originals'
  <2>1. CASE UNCHANGED vars
    BY <1>2, <2>1 DEF vars, Originals, Had, SourceIsKept, OnePast, Past, Kind, Source
  <2>2. QED
    BY <1>2, <2>1, StepOriginals DEF Next, Steps
<1>3. QED
  BY <1>1, <1>2, InitBase, NextBase, PTL DEF Spec

\* For any jobs and originals: an original goes only after some job had it whole.
THEOREM SourcesKept == Spec => []SourceIsKept
<1>1. Originals => SourceIsKept
  BY DEF Originals
<1>2. QED
  BY <1>1, AlwaysOriginals, PTL

\* For any number of deliveries of an SFTP post: at most one of them succeeds.
THEOREM OneSuccess == Spec => []OneSftpSuccess
<1>1. Originals => OneSftpSuccess
  BY DEF Originals, OnePast, Past, OneSftpSuccess
<1>2. QED
  BY <1>1, AlwaysOriginals, PTL

(***************************************************************************)
(* TypeOK.  A job that has a file at hand is at one of its files, and only *)
(* a dump is dumped and mailed.                                            *)
(***************************************************************************)
AtHand == {"opening", "fetching", "writing", "inside", "removing", "cleaning"}

\* A dump has one file; the others begin at their first one.
AtFile ==
  \A j \in Jobs :
    /\ pc[j] \in AtHand => at[j] <= Len(does[j].media)
    /\ pc[j] = "new" \/ Kind(j) = "dump" => at[j] = 1

Values ==
  /\ at \in [Jobs -> Nat \ {0}]
  /\ ok \in [Jobs -> BOOLEAN]
  /\ tries \in [Jobs -> 1..MaxTries]
  /\ disk \subseteq (Jobs \X Nat) \cup ({"title"} \X Sources)
  /\ attached \in [Jobs -> Seq({"photo", "doc", "none"})]
  /\ sent \subseteq Jobs \X Seq({"photo", "doc"})

TypeInv == Base /\ Had /\ AtFile /\ Values

LEMMA MediaAt ==
  ASSUME Base, NEW j \in Jobs, at[j] \in Nat \ {0}, at[j] <= Len(does[j].media)
  PROVE  /\ at[j] \in DOMAIN does[j].media
         /\ Media(j) \in {"photo", "video", "doc"}
<1>1. /\ does[j].media \in Seq({"photo", "video", "doc"})
      /\ at[j] \in 1..Len(does[j].media)
  BY ShapeOf
<1>2. QED
  BY <1>1 DEF Media

\* Leave goes on to a file only if there is one.
LEMMA LeaveIs ==
  ASSUME Base, NEW j \in Jobs, Leave(j), at[j] \in Nat \ {0}
  PROVE  /\ at' \in [Jobs -> Nat]
         /\ at'[j] \in Nat \ {0} /\ \A i \in Jobs : i # j => at'[i] = at[i]
         /\ pc'[j] \in {"raised", "opening", "finishing"}
         /\ pc'[j] = "opening" => at'[j] <= Len(does[j].media)
<1>1. /\ at \in [Jobs -> Nat] /\ pc \in [Jobs -> Places] /\ Len(does[j].media) \in Nat
      /\ at[j] + 1 \in Nat \ {0}
  BY ShapeOf DEF Base
<1>2. \/ at' = [at EXCEPT ![j] = at[j]] /\ pc'[j] # "opening"
      \/ at[j] < Len(does[j].media) /\ at' = [at EXCEPT ![j] = at[j] + 1]
  BY <1>1 DEF Leave, Go, MoreFiles
<1>3. pc'[j] \in {"raised", "opening", "finishing"}
  BY <1>1 DEF Leave, Go
<1>4. at[j] < Len(does[j].media) => at[j] + 1 <= Len(does[j].media)
  BY <1>1
<1>5. QED
  BY <1>1, <1>2, <1>3, <1>4

LEMMA StepAt ==
  ASSUME TypeInv, NEW j \in Jobs, Steps(j)
  PROVE  AtFile' /\ at' \in [Jobs -> Nat \ {0}]
<1>0. /\ at \in [Jobs -> Nat \ {0}] /\ pc \in [Jobs -> Places] /\ Base
      /\ at[j] \in Nat \ {0}
      /\ pc[j] \in AtHand => at[j] <= Len(does[j].media)
      /\ pc[j] = "new" \/ Kind(j) = "dump" => at[j] = 1
      /\ Len(does[j].media) \in Nat
      /\ Kind(j) = "dump" => Len(does[j].media) = 1
      /\ pc[j] \in {"dumping", "mailing"} => Kind(j) = "dump"
      /\ pc[j] = "cleaning" => Kind(j) # "dump"
  BY ShapeOf DEF TypeInv, AtFile, Values, Base, Had, Fetched, Messages
<1>1. /\ does' = does
      /\ \A i \in Jobs : i # j => pc'[i] = pc[i] /\ at'[i] = at[i]
  BY <1>0, StepMoves
<1>2. /\ at' \in [Jobs -> Nat] /\ at'[j] \in Nat \ {0}
      /\ pc'[j] \in AtHand => at'[j] <= Len(does[j].media)
      /\ pc'[j] = "new" \/ Kind(j) = "dump" => at'[j] = 1
  <2> USE DEF Go, AtHand
  <2>1. CASE Begin(j)
    <3>1. at' = at /\ at[j] = 1
      BY <1>0, <2>1 DEF Begin
    <3>2. pc'[j] \in {"done", "silent", "dumping", "finishing", "opening"}
      BY <1>0, <2>1 DEF Begin
    <3>3. pc'[j] = "opening" => does[j].media # <<>>
      BY <1>0, <2>1 DEF Begin
    <3>4. does[j].media # <<>> => Len(does[j].media) >= 1
      <4>1. does[j].media \in Seq({"photo", "video", "doc"})
        BY <1>0, ShapeOf
      <4>2. QED
        BY <4>1
    <3>5. QED
      BY <1>0, <3>1, <3>2, <3>3, <3>4
  <2>2. CASE OpenRaises(j) \/ StatRemote(j) \/ OpenLocal(j) \/ NothingToOpen(j) \/ Enter(j)
             \/ Cut(j) \/ UseFile(j) \/ Upload(j) \/ Dies(j)
    <3>1. at' = at /\ pc'[j] # "new" /\ (pc'[j] \in AtHand => pc[j] \in AtHand)
      BY <1>0, <2>2 DEF OpenRaises, StatRemote, OpenLocal, NothingToOpen, Enter, Cut,
                        UseFile, Upload, Dies
    <3>2. QED
      BY <1>0, <3>1
  <2>3. CASE PostYtVideo(j) \/ Finish(j)
    <3>1. at' = at /\ pc'[j] # "new" /\ pc'[j] \notin AtHand
      BY <1>0, <2>3 DEF PostYtVideo, Finish
    <3>2. QED
      BY <1>0, <3>1
  <2>4. CASE RemoveLocal(j) \/ RemoveRemote(j)
    <3>1. pc[j] \in AtHand
      BY <2>4 DEF RemoveLocal, RemoveRemote
    <3>2. \/ at' = at /\ pc'[j] \in {"cleaning", "done", "raised"}
          \/ Leave(j) /\ Kind(j) # "dump"
      BY <1>0, <2>4 DEF RemoveLocal, RemoveRemote
    <3>3. CASE at' = at /\ pc'[j] \in {"cleaning", "done", "raised"}
      BY <1>0, <3>1, <3>3
    <3>4. CASE Leave(j) /\ Kind(j) # "dump"
      BY <1>0, <3>4, LeaveIs
    <3>5. QED
      BY <3>2, <3>3, <3>4
  <2>5. CASE DumpDb(j) \/ SendDumpFile(j)
    <3>1. /\ at' = at /\ pc[j] \in {"dumping", "mailing"}
          /\ pc'[j] \in {"dumping", "mailing", "left", "removing"}
      BY <1>0, <2>5 DEF DumpDb, SendDumpFile, Again
    <3>2. at'[j] = 1 /\ Len(does[j].media) = 1 /\ pc'[j] # "new"
      BY <1>0, <3>1
    <3>3. QED
      BY <1>0, <3>1, <3>2
  <2>6. QED
    BY <2>1, <2>2, <2>3, <2>4, <2>5 DEF Steps
<1>3. AtFile'
  <2>1. Kind(j)' = Kind(j) /\ \A i \in Jobs : Kind(i)' = Kind(i)
    BY <1>1 DEF Kind
  <2>2. QED
    BY <1>1, <1>2, <2>1 DEF TypeInv, AtFile
<1>4. QED
  BY <1>0, <1>1, <1>2, <1>3

\* A message without "none" is one of photos and documents.
LEMMA NoNone ==
  ASSUME NEW s \in Seq({"photo", "doc", "none"}), \A i \in DOMAIN s : s[i] # "none"
  PROVE  s \in Seq({"photo", "doc"})
<1>1. /\ Len(s) \in Nat /\ DOMAIN s = 1..Len(s)
      /\ s \in [1..Len(s) -> {"photo", "doc", "none"}]
  OBVIOUS
<1>2. s \in [1..Len(s) -> {"photo", "doc"}]
  BY <1>1
<1>3. QED
  BY <1>1, <1>2

LEMMA StepValues ==
  ASSUME TypeInv, NEW j \in Jobs, Steps(j)
  PROVE  Values'
<1>0. /\ Base /\ at[j] \in Nat \ {0}
      /\ pc[j] = "inside" => at[j] <= Len(does[j].media)
      /\ pc[j] \in {"dumping", "mailing"} => Kind(j) = "dump"
  BY DEF TypeInv, AtFile, AtHand, Values, Had
<1>1. at' \in [Jobs -> Nat \ {0}]
  BY StepAt
<1>2. ok' \in [Jobs -> BOOLEAN]
  <2>1. ok' = ok \/ ok' = [ok EXCEPT ![j] = FALSE]
    BY DEF Steps, Begin, OpenRaises, StatRemote, OpenLocal, NothingToOpen, Enter, Cut,
           UseFile, PostYtVideo, Upload, RemoveLocal, RemoveRemote, Finish, DumpDb,
           SendDumpFile, Dies
  <2>2. QED
    BY <2>1 DEF TypeInv, Values
<1>3. tries' \in [Jobs -> 1..MaxTries]
  <2>1. tries \in [Jobs -> 1..MaxTries] /\ MaxTries \in Nat \ {0}
    BY ShapesAssumption DEF TypeInv, Values
  <2>2. \/ tries' = tries
        \/ tries' = [tries EXCEPT ![j] = 1]
        \/ tries[j] < MaxTries /\ tries' = [tries EXCEPT ![j] = tries[j] + 1]
    BY DEF Steps, Begin, OpenRaises, StatRemote, OpenLocal, NothingToOpen, Enter, Cut,
           UseFile, PostYtVideo, Upload, RemoveLocal, RemoveRemote, Finish, DumpDb,
           SendDumpFile, Again, Dies
  <2>3. tries[j] < MaxTries => tries[j] + 1 \in 1..MaxTries
    BY <2>1
  <2>4. 1 \in 1..MaxTries
    BY <2>1
  <2>5. QED
    BY <2>1, <2>2, <2>3, <2>4
<1>4. disk' \subseteq (Jobs \X Nat) \cup ({"title"} \X Sources)
  <2>1. Local(j) \in (Jobs \X Nat) \cup ({"title"} \X Sources)
    BY <1>0, ShapeOf DEF Local
  <2>2. disk' \subseteq disk \cup {Local(j)}
    BY <1>0, StepDisk
  <2>3. QED
    BY <2>1, <2>2 DEF TypeInv, Values
<1>5. attached' \in [Jobs -> Seq({"photo", "doc", "none"})]
  <2>0. attached \in [Jobs -> Seq({"photo", "doc", "none"})]
    BY DEF TypeInv, Values
  <2>1. CASE Upload(j)
    <3>1. Media(j) \in {"photo", "video", "doc"}
      BY <1>0, <2>1, MediaAt DEF Upload
    <3>2. \/ attached' = attached
          \/ \E w \in {"photo", "doc", "none"} :
               attached' = [attached EXCEPT ![j] = Append(attached[j], w)]
      BY <2>1, <3>1 DEF Upload, Attach
    <3>3. ASSUME NEW w \in {"photo", "doc", "none"}
          PROVE  Append(attached[j], w) \in Seq({"photo", "doc", "none"})
      BY <2>0
    <3>4. QED
      BY <2>0, <3>2, <3>3
  <2>2. CASE ~Upload(j)
    <3>1. attached' = attached
      BY <2>2 DEF Steps, Begin, OpenRaises, StatRemote, OpenLocal, NothingToOpen, Enter, Cut,
             UseFile, PostYtVideo, RemoveLocal, RemoveRemote, Finish, DumpDb, SendDumpFile,
             Dies
    <3>2. QED
      BY <2>0, <3>1
  <2>3. QED
    BY <2>1, <2>2
<1>6. sent' \subseteq Jobs \X Seq({"photo", "doc"})
  <2>1. CASE Finish(j)
    <3>1. \/ sent' = sent
          \/ /\ \A i \in DOMAIN attached[j] : attached[j][i] # "none"
             /\ sent' = sent \cup {<<j, attached[j]>>}
      BY <2>1 DEF Finish
    <3>2. attached[j] \in Seq({"photo", "doc", "none"})
      BY DEF TypeInv, Values
    <3>3. QED
      BY <3>1, <3>2, NoNone DEF TypeInv, Values
  <2>2. CASE SendDumpFile(j)
    <3>1. Kind(j) = "dump" /\ sent' \subseteq sent \cup {<<j, does[j].media>>}
      BY <1>0, <2>2 DEF SendDumpFile
    <3>2. does[j].media = <<"doc">> /\ <<"doc">> \in Seq({"photo", "doc"})
      BY <1>0, <3>1, ShapeOf
    <3>3. <<j, does[j].media>> \in Jobs \X Seq({"photo", "doc"})
      BY <3>2
    <3>4. QED
      BY <3>1, <3>3 DEF TypeInv, Values
  <2>3. CASE ~Finish(j) /\ ~SendDumpFile(j)
    <3>1. sent' = sent
      BY <2>3 DEF Steps, Begin, OpenRaises, StatRemote, OpenLocal, NothingToOpen, Enter, Cut,
             UseFile, PostYtVideo, Upload, RemoveLocal, RemoveRemote, DumpDb, Dies
    <3>2. QED
      BY <3>1 DEF TypeInv, Values
  <2>4. QED
    BY <2>1, <2>2, <2>3
<1>7. QED
  BY <1>1, <1>2, <1>3, <1>4, <1>5, <1>6 DEF Values

LEMMA InitTypeInv == Init => TypeInv
<1> SUFFICES ASSUME Init
             PROVE  TypeInv
  OBVIOUS
<1>1. Base /\ Had
  BY InitBase DEF Init, Had
<1>2. AtFile
  BY DEF Init, AtFile, AtHand
<1>3. Values
  <2>1. 1 \in 1..MaxTries
    BY ShapesAssumption
  <2>2. /\ at \in [Jobs -> Nat \ {0}] /\ ok \in [Jobs -> BOOLEAN]
        /\ disk = {} /\ sent = {}
        /\ attached \in [Jobs -> Seq({"photo", "doc", "none"})]
    BY DEF Init
  <2>3. tries \in [Jobs -> 1..MaxTries]
    BY <2>1 DEF Init
  <2>4. QED
    BY <2>2, <2>3 DEF Values
<1>4. QED
  BY <1>1, <1>2, <1>3 DEF TypeInv

LEMMA NextTypeInv == ASSUME TypeInv, [Next]_vars
                     PROVE  TypeInv'
<1>1. CASE UNCHANGED vars
  BY <1>1 DEF vars, TypeInv, Base, Had, AtFile, Values, Kind
<1>2. ASSUME NEW j \in Jobs, Steps(j)
      PROVE  TypeInv'
  BY <1>2, NextBase, StepHad, StepAt, StepValues DEF TypeInv, Next, Steps
<1>3. QED
  BY <1>1, <1>2 DEF Next, Steps

LEMMA TypeInvariant == Spec => []TypeInv
  BY InitTypeInv, NextTypeInv, PTL DEF Spec

LEMMA TypeInvTypes == ASSUME TypeInv
                      PROVE  TypeOK
<1>1. ASSUME NEW j \in Jobs, pc[j] \in {"opening", "writing", "inside"}
      PROVE  at[j] \in DOMAIN does[j].media
  BY <1>1, MediaAt DEF TypeInv, AtFile, AtHand, Values
<1>2. /\ does \in [Jobs -> Shapes] /\ pc \in [Jobs -> Running \cup Ends \cup {"new"}]
      /\ remote \subseteq Sources /\ reached \subseteq Jobs
  BY DEF TypeInv, Base, Places
<1>3. QED
  BY <1>1, <1>2 DEF TypeInv, Values, TypeOK

\* For any jobs, media and tries: the state keeps its types.  Among them are that no job
\* goes on to a file that was not given to it, and that VK is sent no attachment that
\* is None.
THEOREM TypeCorrect == Spec => []TypeOK
  BY TypeInvariant, TypeInvTypes, PTL

(***************************************************************************)
(* SentWhole.  The attachments of a message follow the loop over its files: *)
(* before file n is uploaded they are what there is to send of the n - 1   *)
(* files before it.                                                        *)
(***************************************************************************)
LEMMA TakenNothing ==
  ASSUME NEW seq, seq = <<>>, NEW media
  PROVE  TakenOf(seq, media, 0)
<1>1. DOMAIN seq = {} /\ 1..0 = {}
  OBVIOUS
<1> DEFINE from == [i \in {} |-> 0]
<1>2. from \in [DOMAIN seq -> 1..0]
  BY <1>1
<1>3. {from[i] : i \in DOMAIN seq} = {k \in 1..0 : media[k] # "video"}
  BY <1>1
<1>4. \A i \in DOMAIN seq : FALSE
  BY <1>1
<1> HIDE DEF from
<1>5. QED
  BY <1>2, <1>3, <1>4 DEF TakenOf

\* The next file, if VK takes it, comes last.
LEMMA TakenMore ==
  ASSUME NEW S, NEW seq \in Seq(S), NEW media, NEW n \in Nat, NEW x \in S,
         TakenOf(seq, media, n), x = media[n + 1], x # "video"
  PROVE  TakenOf(Append(seq, x), media, n + 1)
<1> DEFINE m == Len(seq)
           more == Append(seq, x)
<1>1. /\ m \in Nat /\ DOMAIN seq = 1..m
      /\ more \in Seq(S) /\ Len(more) = m + 1 /\ DOMAIN more = 1..m + 1
      /\ more[m + 1] = x /\ \A i \in 1..m : more[i] = seq[i]
  OBVIOUS
<1>0. PICK from \in [DOMAIN seq -> 1..n] :
        /\ \A i, k \in DOMAIN seq : i < k => from[i] < from[k]
        /\ \A i \in DOMAIN seq : seq[i] = media[from[i]]
        /\ {from[i] : i \in DOMAIN seq} = {k \in 1..n : media[k] # "video"}
  BY DEF TakenOf
<1>2. /\ from \in [1..m -> 1..n]
      /\ \A i, k \in 1..m : i < k => from[i] < from[k]
      /\ \A i \in 1..m : seq[i] = media[from[i]]
      /\ {from[i] : i \in 1..m} = {k \in 1..n : media[k] # "video"}
  <2> HIDE DEF m, more
  <2>1. DOMAIN seq = 1..m
    BY <1>1
  <2>2. QED
    BY <1>0, <2>1
<1> DEFINE next == [i \in 1..m + 1 |-> IF i = m + 1 THEN n + 1 ELSE from[i]]
<1>3. /\ next[m + 1] = n + 1
      /\ \A i \in 1..m : next[i] = from[i] /\ from[i] \in 1..n
  BY <1>1, <1>2
<1>4. \A i \in 1..m + 1 : i \in 1..m \/ i = m + 1
  BY <1>1
<1>5. next \in [1..m + 1 -> 1..n + 1]
  <2>1. \A i \in 1..m + 1 : next[i] \in 1..n + 1
    BY <1>3, <1>4
  <2>2. QED
    BY <2>1
<1> HIDE DEF next, m, more
<1>6. \A i, k \in 1..m + 1 : i < k => next[i] < next[k]
  <2>1. SUFFICES ASSUME NEW i \in 1..m + 1, NEW k \in 1..m + 1, i < k
                 PROVE  next[i] < next[k]
    OBVIOUS
  <2>2. i \in 1..m
    BY <1>1, <2>1
  <2>3. CASE k \in 1..m
    BY <1>2, <1>3, <2>1, <2>2, <2>3
  <2>4. CASE k = m + 1
    BY <1>3, <2>2, <2>4
  <2>5. QED
    BY <1>4, <2>3, <2>4
<1>7. \A i \in 1..m + 1 : more[i] = media[next[i]]
  BY <1>1, <1>2, <1>3, <1>4
<1>8. {next[i] : i \in 1..m + 1} = {k \in 1..n + 1 : media[k] # "video"}
  <2>1. ASSUME NEW i \in 1..m + 1
        PROVE  next[i] \in {k \in 1..n + 1 : media[k] # "video"}
    <3>1. CASE i \in 1..m
      <4>1. from[i] \in {k \in 1..n : media[k] # "video"}
        BY <1>2, <3>1
      <4>2. QED
        BY <1>3, <3>1, <4>1
    <3>2. CASE i = m + 1
      BY <1>3, <3>2
    <3>3. QED
      BY <1>4, <3>1, <3>2
  <2>2. ASSUME NEW k \in 1..n + 1, media[k] # "video"
        PROVE  \E i \in 1..m + 1 : k = next[i]
    <3>1. CASE k \in 1..n
      <4>1. PICK i \in 1..m : k = from[i]
        BY <1>2, <2>2, <3>1
      <4>2. i \in 1..m + 1 /\ next[i] = k
        BY <1>1, <1>3, <4>1
      <4>3. QED
        BY <4>2
    <3>2. CASE k = n + 1
      <4>1. m + 1 \in 1..m + 1
        BY <1>1
      <4>2. QED
        BY <1>3, <3>2, <4>1
    <3>3. QED
      BY <3>1, <3>2
  <2>3. QED
    BY <2>1, <2>2
<1>9. TakenOf(more, media, n + 1)
  <2>1. /\ next \in [DOMAIN more -> 1..n + 1]
        /\ \A i, k \in DOMAIN more : i < k => next[i] < next[k]
        /\ \A i \in DOMAIN more : more[i] = media[next[i]]
        /\ {next[i] : i \in DOMAIN more} = {k \in 1..n + 1 : media[k] # "video"}
    BY <1>1, <1>5, <1>6, <1>7, <1>8
  <2>2. QED
    BY <2>1 DEF TakenOf
<1>10. QED
  BY <1>9 DEF more

\* A video is passed over.
LEMMA TakenSkip ==
  ASSUME NEW S, NEW seq \in Seq(S), NEW media, NEW n \in Nat,
         TakenOf(seq, media, n), media[n + 1] = "video"
  PROVE  TakenOf(seq, media, n + 1)
<1>1. PICK from \in [DOMAIN seq -> 1..n] :
        /\ \A i, k \in DOMAIN seq : i < k => from[i] < from[k]
        /\ \A i \in DOMAIN seq : seq[i] = media[from[i]]
        /\ {from[i] : i \in DOMAIN seq} = {k \in 1..n : media[k] # "video"}
  BY DEF TakenOf
<1>2. 1..n \subseteq 1..n + 1 /\ \A k \in 1..n + 1 : k \in 1..n \/ k = n + 1
  OBVIOUS
<1>3. {k \in 1..n : media[k] # "video"} = {k \in 1..n + 1 : media[k] # "video"}
  BY <1>2
<1>4. from \in [DOMAIN seq -> 1..n + 1]
  BY <1>1, <1>2
<1>5. QED
  BY <1>1, <1>3, <1>4 DEF TakenOf

\* All of it is taken where there is no video.
LEMMA TakenAll ==
  ASSUME NEW S, NEW media \in Seq(S), \A i \in DOMAIN media : media[i] # "video"
  PROVE  TakenOf(media, media, Len(media))
<1> DEFINE from == [i \in DOMAIN media |-> i]
<1>1. DOMAIN media = 1..Len(media)
  OBVIOUS
<1>2. from \in [DOMAIN media -> 1..Len(media)]
  BY <1>1
<1>3. {from[i] : i \in DOMAIN media} = {k \in 1..Len(media) : media[k] # "video"}
  BY <1>1
<1>4. QED
  BY <1>2, <1>3 DEF TakenOf

\* What was attached of the first n files.
Made(seq, kind, media, n) ==
  IF kind = "form"
  THEN /\ Len(seq) = n
       /\ \A i \in 1..n : seq[i] = IF media[i] = "video" THEN "none" ELSE media[i]
  ELSE TakenOf(seq, media, n)

MadeOf(j, n) == Made(attached[j], Kind(j), does[j].media, n)

Partial ==
  \A j \in Jobs : Kind(j) \in Messages =>
    /\ pc[j] \notin {"fetching", "cleaning", "dumping", "mailing"}
    /\ pc[j] \in {"new", "opening", "writing", "inside"} => ok[j] /\ MadeOf(j, at[j] - 1)
    /\ pc[j] = "removing" /\ ok[j] => MadeOf(j, at[j])
    /\ pc[j] = "finishing" => MadeOf(j, Len(does[j].media))

LEMMA MadeMore ==
  ASSUME TypeInv, NEW j \in Jobs, Kind(j) \in Messages, Upload(j),
         MadeOf(j, at[j] - 1), ok'[j]
  PROVE  Made(attached'[j], Kind(j), does[j].media, at[j])
<1> DEFINE seq == attached[j]
           media == does[j].media
           n == at[j] - 1
           S == {"photo", "doc", "none"}
<1>1. /\ seq \in Seq(S) /\ n \in Nat /\ n + 1 = at[j]
      /\ media[at[j]] \in {"photo", "video", "doc"} /\ Media(j) = media[at[j]]
      /\ attached \in [Jobs -> Seq(S)] /\ ok \in [Jobs -> BOOLEAN]
  <2>1. /\ Base /\ at[j] \in Nat \ {0} /\ at[j] <= Len(does[j].media)
        /\ attached \in [Jobs -> Seq(S)] /\ ok \in [Jobs -> BOOLEAN]
    BY DEF TypeInv, AtFile, AtHand, Values, Upload
  <2>2. QED
    BY <2>1, MediaAt DEF Media
<1> DEFINE w == IF media[at[j]] = "video" THEN "none" ELSE media[at[j]]
<1>2. \/ attached'[j] = Append(seq, w) /\ (Kind(j) = "form" \/ media[at[j]] # "video")
      \/ attached'[j] = seq /\ Kind(j) # "form" /\ media[at[j]] = "video"
  <2>1. ok' # [ok EXCEPT ![j] = FALSE]
    BY <1>1
  <2> HIDE DEF w, media, S
  <2>2. \/ Media(j) # "video" /\ attached' = [attached EXCEPT ![j] = Append(seq, Media(j))]
        \/ /\ Media(j) = "video" /\ Kind(j) = "form"
           /\ attached' = [attached EXCEPT ![j] = Append(seq, "none")]
        \/ Media(j) = "video" /\ Kind(j) # "form" /\ attached' = attached
    BY <2>1 DEF Upload, Attach
  <2>3. /\ media[at[j]] = "video" => w = "none"
        /\ media[at[j]] # "video" => w = Media(j)
    BY <1>1 DEF w
  <2>4. ASSUME NEW x, attached' = [attached EXCEPT ![j] = x]
        PROVE  attached'[j] = x
    BY <1>1, <2>4
  <2>5. QED
    BY <1>1, <2>2, <2>3, <2>4
<1>3. w \in S
  BY <1>1
<1>4. CASE Kind(j) = "form"
  <2>1. /\ Len(seq) = n
        /\ \A i \in 1..n : seq[i] = IF media[i] = "video" THEN "none" ELSE media[i]
    BY <1>4 DEF MadeOf, Made
  <2>2. attached'[j] = Append(seq, w)
    BY <1>2, <1>4
  <2> HIDE DEF w, seq, media, n
  <2>3. /\ Len(Append(seq, w)) = n + 1 /\ Append(seq, w)[n + 1] = w
        /\ \A i \in 1..n : Append(seq, w)[i] = seq[i]
    <3> HIDE DEF S
    <3>1. seq \in Seq(S) /\ w \in S /\ Len(seq) = n
      BY <1>1, <1>3, <2>1
    <3>2. QED
      BY <3>1
  <2>4. \A i \in 1..n + 1 : i \in 1..n \/ i = n + 1
    BY <1>1
  <2>5. w = IF media[n + 1] = "video" THEN "none" ELSE media[n + 1]
    BY <1>1 DEF w
  <2>6. \A i \in 1..n + 1 :
          Append(seq, w)[i] = IF media[i] = "video" THEN "none" ELSE media[i]
    BY <2>1, <2>3, <2>4, <2>5
  <2>7. Made(Append(seq, w), Kind(j), media, n + 1)
    BY <1>4, <2>3, <2>6 DEF Made
  <2>8. QED
    BY <1>1, <2>2, <2>7 DEF media
<1>5. CASE Kind(j) # "form"
  <2>1. TakenOf(seq, media, n)
    BY <1>5 DEF MadeOf, Made
  <2> HIDE DEF seq, media, n, S
  <2>2. TakenOf(attached'[j], media, n + 1)
    <3>1. CASE media[at[j]] # "video"
      <4>1. w = media[n + 1] /\ w # "video" /\ attached'[j] = Append(seq, w)
        BY <1>1, <1>2, <3>1
      <4> HIDE DEF w
      <4>2. QED
        BY <1>1, <1>3, <2>1, <4>1, TakenMore
    <3>2. CASE media[at[j]] = "video"
      <4>1. media[n + 1] = "video" /\ attached'[j] = seq
        BY <1>1, <1>2, <1>5, <3>2
      <4>2. QED
        BY <1>1, <2>1, <4>1, TakenSkip
    <3>3. QED
      BY <3>1, <3>2
  <2>3. QED
    BY <1>1, <1>5, <2>2 DEF Made, media
<1>6. QED
  BY <1>4, <1>5

\* Where nothing is attached, the attachments are of as many files as before.
LEMMA SameMade ==
  ASSUME TypeInv, NEW j \in Jobs, Steps(j), ~Upload(j)
  PROVE  /\ attached' = attached
         /\ \A i \in Jobs : \A n : MadeOf(i, n) => Made(attached'[i], Kind(i), does[i].media, n)
  BY DEF MadeOf, Steps, Begin, OpenRaises, StatRemote, OpenLocal, NothingToOpen, Enter, Cut,
         UseFile, PostYtVideo, RemoveLocal, RemoveRemote, Finish, DumpDb, SendDumpFile, Dies

\* The stages of a message, one by one.
LEMMA StepPartial ==
  ASSUME TypeInv, Partial, NEW j \in Jobs, Steps(j)
  PROVE  Partial'
<1> DEFINE len == Len(does[j].media)
           MadeNow(i, n) == Made(attached'[i], Kind(i), does[i].media, n)
<1>0. /\ Base /\ does' = does
      /\ \A i \in Jobs : i # j => pc'[i] = pc[i] /\ at'[i] = at[i]
      /\ at \in [Jobs -> Nat \ {0}] /\ pc \in [Jobs -> Places] /\ ok \in [Jobs -> BOOLEAN]
      /\ len \in Nat
  BY StepMoves, ShapeOf DEF TypeInv, Values, Base
<1>1. /\ \A i \in Jobs : Kind(i)' = Kind(i)
      /\ \A i \in Jobs : \A n : MadeOf(i, n)' <=> MadeNow(i, n)
  BY <1>0 DEF Kind, MadeOf
<1>2. ASSUME NEW i \in Jobs, i # j, Kind(i) \in Messages
      PROVE  /\ pc'[i] \notin {"fetching", "cleaning", "dumping", "mailing"}
             /\ pc'[i] \in {"new", "opening", "writing", "inside"} =>
                  ok'[i] /\ MadeNow(i, at'[i] - 1)
             /\ pc'[i] = "removing" /\ ok'[i] => MadeNow(i, at'[i])
             /\ pc'[i] = "finishing" => MadeNow(i, Len(does[i].media))
  <2>1. ok'[i] = ok[i]
    <3>1. ok' = ok \/ ok' = [ok EXCEPT ![j] = FALSE]
      BY DEF Steps, Begin, OpenRaises, StatRemote, OpenLocal, NothingToOpen, Enter, Cut,
             UseFile, PostYtVideo, Upload, RemoveLocal, RemoveRemote, Finish, DumpDb,
             SendDumpFile, Dies
    <3>2. QED
      BY <1>0, <1>2, <3>1
  <2>2. attached'[i] = attached[i]
    <3>1. CASE Upload(j)
      <4>1. attached' = attached \/ \E w : attached' = [attached EXCEPT ![j] = w]
        BY <3>1 DEF Upload, Attach
      <4>2. QED
        BY <1>2, <4>1 DEF TypeInv, Values
    <3>2. CASE ~Upload(j)
      BY <3>2, SameMade
    <3>3. QED
      BY <3>1, <3>2
  <2>3. \A n : MadeOf(i, n) => MadeNow(i, n)
    BY <2>2 DEF MadeOf
  <2>4. QED
    BY <1>0, <1>2, <2>1, <2>3 DEF Partial
<1>3. ASSUME Kind(j) \in Messages
      PROVE  /\ pc'[j] \notin {"fetching", "cleaning", "dumping", "mailing"}
             /\ pc'[j] \in {"new", "opening", "writing", "inside"} =>
                  ok'[j] /\ MadeNow(j, at'[j] - 1)
             /\ pc'[j] = "removing" /\ ok'[j] => MadeNow(j, at'[j])
             /\ pc'[j] = "finishing" => MadeNow(j, len)
  <2>0. /\ pc[j] \notin {"fetching", "cleaning", "dumping", "mailing"}
        /\ pc[j] \in {"new", "opening", "writing", "inside"} => ok[j] /\ MadeOf(j, at[j] - 1)
        /\ pc[j] = "removing" /\ ok[j] => MadeOf(j, at[j])
        /\ pc[j] = "finishing" => MadeOf(j, len)
        /\ Kind(j) \in {"api", "form"}
        /\ pc[j] = "new" => at[j] = 1
        /\ pc[j] = "removing" => at[j] <= len
        /\ at[j] \in Nat \ {0}
    BY <1>0, <1>3 DEF Partial, Messages, TypeInv, AtFile, AtHand
  <2> HIDE DEF len, MadeNow
  <2>1. CASE Begin(j)
    <3>1. /\ pc[j] = "new" /\ at' = at /\ ok' = ok
          /\ pc'[j] = "finishing" => does[j].media = <<>>
          /\ pc'[j] \in {"done", "silent", "dumping", "finishing", "opening"}
          /\ pc'[j] # "dumping"
      BY <1>0, <2>0, <2>1 DEF Begin, Go
    <3>2. MadeNow(j, 0)
      BY <2>0, <2>1, <3>1, SameMade DEF Begin, Upload, MadeNow
    <3>3. does[j].media = <<>> => len = 0
      BY DEF len
    <3>4. QED
      BY <2>0, <3>1, <3>2, <3>3
  <2>2. CASE \/ OpenLocal(j) \/ Enter(j)
    <3>1. /\ pc[j] \in {"opening", "writing"} /\ pc'[j] \in {"writing", "inside"}
          /\ at' = at /\ ok' = ok /\ ~Upload(j)
      BY <1>0, <2>0, <2>2 DEF OpenLocal, Enter, Upload, Go
    <3>2. QED
      BY <2>0, <3>1, SameMade DEF MadeNow
  <2>3. CASE Upload(j)
    <3>1. pc[j] = "inside" /\ pc'[j] = "removing" /\ at' = at
      BY <1>0, <2>3 DEF Upload, Go
    <3>2. ok'[j] => MadeNow(j, at'[j])
      BY <1>3, <2>0, <2>3, <3>1, MadeMore DEF MadeNow
    <3>3. QED
      BY <3>1, <3>2
  <2>4. CASE RemoveLocal(j)
    <3>1. /\ pc[j] = "removing" /\ ok' = ok /\ ~Upload(j)
          /\ \/ Leave(j)
             \/ pc'[j] = "raised"
      BY <1>0, <2>0, <2>4 DEF RemoveLocal, Upload, Fetched, Go
    <3>2. CASE pc'[j] = "raised"
      BY <3>2
    <3>3. CASE Leave(j)
      <4>1. \/ pc'[j] = "raised"
            \/ ok[j] /\ at[j] < len /\ pc'[j] = "opening" /\ at'[j] = at[j] + 1
            \/ ok[j] /\ ~(at[j] < len) /\ pc'[j] = "finishing" /\ at'[j] = at[j]
        BY <1>0, <3>3 DEF Leave, Go, MoreFiles, len
      <4>2. ok[j] => MadeNow(j, at[j])
        BY <2>0, <3>1, SameMade DEF MadeNow
      <4>3. CASE pc'[j] = "opening"
        <5>1. at'[j] - 1 = at[j] /\ ok'[j]
          BY <2>0, <3>1, <4>1, <4>3
        <5>2. MadeNow(j, at'[j] - 1)
          BY <4>1, <4>2, <4>3, <5>1
        <5>3. QED
          BY <4>3, <5>1, <5>2
      <4>4. CASE pc'[j] = "finishing"
        <5>1. at[j] = len
          BY <1>0, <2>0, <3>1, <4>1, <4>4
        <5>2. QED
          BY <4>1, <4>2, <4>4, <5>1
      <4>5. QED
        BY <4>1, <4>3, <4>4
    <3>4. QED
      BY <3>1, <3>2, <3>3
  <2>5. CASE \/ OpenRaises(j) \/ Cut(j) \/ Finish(j) \/ Dies(j)
    BY <1>0, <2>5 DEF OpenRaises, Cut, Finish, Dies, Go
  <2>6. CASE \/ StatRemote(j) \/ NothingToOpen(j) \/ UseFile(j) \/ PostYtVideo(j)
             \/ RemoveRemote(j) \/ DumpDb(j) \/ SendDumpFile(j)
    BY <1>3, <2>0, <2>6 DEF StatRemote, NothingToOpen, UseFile, PostYtVideo, RemoveRemote,
                            DumpDb, SendDumpFile, Fetched, Messages
  <2>7. QED
    BY <2>1, <2>2, <2>3, <2>4, <2>5, <2>6 DEF Steps
<1>4. QED
  <2>1. \A i \in Jobs : Kind(i) \in Messages =>
          /\ pc'[i] \notin {"fetching", "cleaning", "dumping", "mailing"}
          /\ pc'[i] \in {"new", "opening", "writing", "inside"} =>
               ok'[i] /\ MadeNow(i, at'[i] - 1)
          /\ pc'[i] = "removing" /\ ok'[i] => MadeNow(i, at'[i])
          /\ pc'[i] = "finishing" => MadeNow(i, Len(does[i].media))
    BY <1>2, <1>3
  <2> HIDE DEF MadeNow, len
  <2>2. QED
    BY <1>0, <1>1, <2>1 DEF Partial

\* A message goes out when all its files were seen to.
LEMMA StepWhole ==
  ASSUME TypeInv, Partial, SentWhole, NEW j \in Jobs, Steps(j)
  PROVE  SentWhole'
<1> DEFINE media == does[j].media
           Whole(seq) == /\ TakenOf(seq, media, Len(media))
                         /\ Kind(j) = "form" => seq = media
<1>1. /\ Base /\ does' = does /\ sent \subseteq Jobs \X Seq({"photo", "doc"})
      /\ media \in Seq({"photo", "video", "doc"})
      /\ attached[j] \in Seq({"photo", "doc", "none"})
  BY StepMoves, ShapeOf DEF TypeInv, Values
<1>2. ASSUME NEW seq, Whole(seq), sent' \subseteq sent \cup {<<j, seq>>}
      PROVE  SentWhole'
  BY <1>1, <1>2 DEF SentWhole, Kind
<1>3. CASE Finish(j)
  <2>1. CASE sent' = sent
    BY <1>1, <2>1 DEF SentWhole, Kind
  <2>2. CASE sent' # sent
    <3>1. /\ pc[j] = "finishing" /\ Kind(j) \in Messages
          /\ \A i \in DOMAIN attached[j] : attached[j][i] # "none"
          /\ sent' = sent \cup {<<j, attached[j]>>}
      BY <1>3, <2>2 DEF Finish
    <3>2. Made(attached[j], Kind(j), media, Len(media))
      BY <3>1 DEF Partial, MadeOf
    <3>3. CASE Kind(j) = "form"
      <4>1. /\ Len(attached[j]) = Len(media)
            /\ \A i \in 1..Len(media) :
                 attached[j][i] = IF media[i] = "video" THEN "none" ELSE media[i]
        BY <3>2, <3>3 DEF Made
      <4>2. DOMAIN attached[j] = 1..Len(media) /\ DOMAIN media = 1..Len(media)
        BY <1>1, <4>1
      <4>3. \A i \in 1..Len(media) : media[i] # "video" /\ attached[j][i] = media[i]
        BY <3>1, <4>1, <4>2
      <4>4. attached[j] = media
        BY <1>1, <4>1, <4>3
      <4>5. TakenOf(media, media, Len(media))
        BY <1>1, <4>2, <4>3, TakenAll
      <4>6. QED
        BY <1>2, <3>1, <4>4, <4>5
    <3>4. CASE Kind(j) # "form"
      BY <1>2, <3>1, <3>2, <3>4 DEF Made
    <3>5. QED
      BY <3>3, <3>4
  <2>3. QED
    BY <2>1, <2>2
<1>4. CASE SendDumpFile(j)
  <2>1. Kind(j) = "dump" /\ sent' \subseteq sent \cup {<<j, media>>}
    BY <1>4 DEF SendDumpFile, TypeInv, Had
  <2>2. media = <<"doc">>
    BY <1>1, <2>1, ShapeOf
  <2>3. \A i \in DOMAIN media : media[i] # "video"
    BY <2>2
  <2>4. TakenOf(media, media, Len(media))
    BY <1>1, <2>3, TakenAll
  <2>5. QED
    BY <1>2, <2>1, <2>4
<1>5. CASE ~Finish(j) /\ ~SendDumpFile(j)
  <2>1. sent' = sent
    BY <1>5 DEF Steps, Begin, OpenRaises, StatRemote, OpenLocal, NothingToOpen, Enter, Cut,
           UseFile, PostYtVideo, Upload, RemoveLocal, RemoveRemote, DumpDb, Dies
  <2>2. QED
    BY <1>1, <2>1 DEF SentWhole, Kind
<1>6. QED
  BY <1>3, <1>4, <1>5

\* For any message and any files: it is sent with all the files VK takes, in their
\* order, or not at all; that of the web form with all files.
THEOREM MessagesWhole == Spec => []SentWhole
<1>1. ASSUME Init
      PROVE  TypeInv /\ Partial /\ SentWhole
  <2>1. Partial
    <3>1. ASSUME NEW j \in Jobs
          PROVE  MadeOf(j, 0) /\ pc[j] = "new" /\ at[j] - 1 = 0 /\ ok[j]
      <4>1. attached[j] = <<>> /\ pc[j] = "new" /\ at[j] = 1 /\ ok[j] = TRUE
        BY <1>1 DEF Init
      <4>2. TakenOf(attached[j], does[j].media, 0)
        BY <4>1, TakenNothing
      <4>3. Len(attached[j]) = 0 /\ 1..0 = {}
        BY <4>1
      <4>4. MadeOf(j, 0)
        BY <4>2, <4>3 DEF MadeOf, Made
      <4>5. QED
        BY <4>1, <4>4
    <3>2. QED
      BY <3>1 DEF Partial
  <2>2. SentWhole
    BY <1>1 DEF Init, SentWhole
  <2>3. QED
    BY <1>1, <2>1, <2>2, InitTypeInv
<1>2. ASSUME TypeInv, Partial, SentWhole, [Next]_vars
      PROVE  TypeInv' /\ Partial' /\ SentWhole'
  <2>1. CASE UNCHANGED vars
    BY <1>2, <2>1, NextTypeInv DEF vars, Partial, MadeOf, SentWhole, Kind
  <2>2. QED
    BY <1>2, <2>1, NextTypeInv, StepPartial, StepWhole DEF Next, Steps
<1>3. QED
  BY <1>1, <1>2, PTL DEF Spec
=============================================================================
