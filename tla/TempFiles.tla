------------------------------ MODULE TempFiles ------------------------------
(***************************************************************************)
(* The files that come and go on the local disk (utils/files.py and those   *)
(* who use it), and what is done with them: on_vk_post fetches a post from  *)
(* SFTP, S3, a URL or YouTube, on_speech_to_text and the two handlers that  *)
(* send a message of the administrator keep an upload, and the dumper makes *)
(* a dump of the database.  Jobs run concurrently; two of them may be       *)
(* deliveries of one request.                                              *)
(*                                                                         *)
(* Posting is disabled in VkClient: a post is done when it would have been  *)
(* posted.  Its only failure is a client that is not there.                *)
(***************************************************************************)
EXTENDS Naturals, Sequences

CONSTANTS Jobs,
          Shapes,       \* what a job can be
          Sources,      \* files at SFTP or S3, and titles at YouTube
          MaxTries      \* DumperService.tries; 3 in the code

Fetched  == {"sftp", "s3"}                 \* with auto_remove
Stored   == {"base64", "speech", "api", "form"}
Messages == {"api", "form"}                \* rest_api and web: send a message

ASSUME ShapesAssumption ==
  /\ Shapes \subseteq
       [kind : Fetched \cup Stored \cup {"url", "yt", "dump", "empty", "partial"},
        media : Seq({"photo", "video", "doc"}),   \* one for each file of the job
        source : Sources]                         \* of "sftp", "s3" and "yt"
  /\ \A s \in Shapes :                \* only a message has any number of files
       /\ s.kind \notin Messages => Len(s.media) = 1
       /\ s.kind = "dump" => s.media = <<"doc">>
  /\ MaxTries \in Nat \ {0}

VARIABLES
  does,       \* does[j]: the shape of j
  pc,         \* pc[j]: where j is, or how it ended
  at,         \* at[j]: the file of j that is at hand
  ok,         \* ok[j]: the body of the with block did not raise
  tries,      \* tries[j]: tries of a dump, or of sending it
  disk,       \* files on the local disk
  remote,     \* files at SFTP and S3
  reached,    \* jobs that came to a body with their file
  attached,   \* attached[j]: the attachments made so far
  sent        \* messages VK has taken

vars == <<does, pc, at, ok, tries, disk, remote, reached, attached, sent>>

\* The job has, or may have, a file on the disk.
Holding == {"writing", "inside", "removing", "dumping", "mailing"}

Running == Holding \cup {"opening", "fetching", "cleaning", "finishing"}

\* "cut": the write of a file failed.  "left": the job ended, with success or
\* without, and did not come to its os.remove.
Ends == {"done", "silent", "raised", "cut", "left", "lost"}

Kind(j) == does[j].kind
Media(j) == does[j].media[at[j]]
Source(j) == does[j].source

\* A name of its own for each file (uuid4), but the title for a video of YouTube.
Local(j) == IF Kind(j) = "yt" THEN <<"title", Source(j)>> ELSE <<j, at[j]>>

TypeOK ==
  /\ does \in [Jobs -> Shapes]
  /\ pc \in [Jobs -> Running \cup Ends \cup {"new"}]
  /\ at \in [Jobs -> Nat \ {0}]
  /\ \A j \in Jobs : pc[j] \in {"opening", "writing", "inside"} =>
                       at[j] \in DOMAIN does[j].media
  /\ ok \in [Jobs -> BOOLEAN]
  /\ tries \in [Jobs -> 1..MaxTries]
  /\ disk \subseteq (Jobs \X Nat) \cup ({"title"} \X Sources)
  /\ remote \subseteq Sources
  /\ reached \subseteq Jobs
  /\ attached \in [Jobs -> Seq({"photo", "doc", "none"})]
  /\ sent \subseteq Jobs \X Seq({"photo", "doc"})

Init ==
  /\ does \in [Jobs -> Shapes]
  /\ pc = [j \in Jobs |-> "new"]
  /\ at = [j \in Jobs |-> 1]
  /\ ok = [j \in Jobs |-> TRUE]
  /\ tries = [j \in Jobs |-> 1]
  /\ disk = {}
  /\ remote = Sources
  /\ reached = {}
  /\ attached = [j \in Jobs |-> <<>>]
  /\ sent = {}

-----------------------------------------------------------------------------
(* The steps of a job *)

Go(j, s) == pc' = [pc EXCEPT ![j] = s]

OnDisk(j) == disk' = disk \cup {Local(j)}

\* Mutant: one file too many.
OneFileMore(j) == at[j] <= Len(does[j].media)

MoreFiles(j) == at[j] < Len(does[j].media)

\* The branch of on_vk_post, or the first file of a message.  A post with half of
\* the address of an S3 file meets no branch and gets no reply.
Begin(j) ==
  /\ pc[j] = "new"
  /\ Go(j, CASE Kind(j) = "empty" -> "done"
             [] Kind(j) = "partial" -> "silent"
             [] Kind(j) = "base64" /\ Media(j) # "photo" -> "done"
             [] Kind(j) = "dump" -> "dumping"
             [] does[j].media = <<>> -> "finishing"
             [] OTHER -> "opening")
  /\ UNCHANGED <<does, at, ok, tries, disk, remote, reached, attached, sent>>

\* An exception or a cancellation before the local file is there: SFTP or S3 is
\* out of reach, the content has no known extension or is no base64.
OpenRaises(j) ==
  /\ pc[j] \in {"opening", "fetching"}
  /\ Go(j, "raised")
  /\ UNCHANGED <<does, at, ok, tries, disk, remote, reached, attached, sent>>

\* SFTP and S3 stat, read and, at SFTP, remove only what they have.
RemoteHas(j) == Source(j) \in remote

\* stat or head_file: the file is there.
StatRemote(j) ==
  /\ pc[j] = "opening"
  /\ Kind(j) \in Fetched
  /\ RemoteHas(j)
  /\ Go(j, "fetching")
  /\ UNCHANGED <<does, at, ok, tries, disk, remote, reached, attached, sent>>

\* The local file is opened.  S3 has sent all of it by then; a URL has sent the
\* headers; YouTube's video is complete, and will be asked for again.
OpenLocal(j) ==
  /\ \/ pc[j] = "opening" /\ Kind(j) \in Stored \cup {"url", "yt"}
     \/ pc[j] = "fetching" /\ (Kind(j) = "s3" => RemoteHas(j))
  /\ OnDisk(j)
  /\ Go(j, "writing")
  /\ UNCHANGED <<does, at, ok, tries, remote, reached, attached, sent>>

\* download_file declines the response, or YouTube fails and the link is posted:
\* there is no file.
NothingToOpen(j) ==
  /\ pc[j] = "opening"
  /\ Kind(j) \in {"url", "yt"}
  /\ Go(j, "finishing")
  /\ UNCHANGED <<does, at, ok, tries, disk, remote, reached, attached, sent>>

\* The file is complete: __aenter__ returns.  SFTP reads while it writes.
Enter(j) ==
  /\ pc[j] = "writing"
  /\ Kind(j) = "sftp" => RemoteHas(j)
  /\ OnDisk(j)
  /\ Go(j, "inside")
  /\ reached' = reached \cup {j}
  /\ UNCHANGED <<does, at, ok, tries, remote, attached, sent>>

\* Mutant: a failed __aenter__ cleans up as __aexit__ does.
CutCleansUp(j) ==
  /\ pc[j] = "writing"
  /\ ok' = [ok EXCEPT ![j] = FALSE]
  /\ Go(j, "removing")
  /\ UNCHANGED <<does, at, tries, disk, remote, reached, attached, sent>>

\* The write ends with an exception: nobody calls __aexit__.  So it is if YouTube
\* fails when the video is asked for again.
Cut(j) ==
  /\ pc[j] = "writing"
  /\ Go(j, IF Kind(j) = "yt" THEN "left" ELSE "cut")
  /\ UNCHANGED <<does, at, ok, tries, disk, remote, reached, attached, sent>>

\* The body of a post or of on_speech_to_text.
UseFile(j) ==
  /\ pc[j] = "inside"
  /\ Kind(j) \notin Messages \cup {"yt"}
  /\ ok' \in {ok, [ok EXCEPT ![j] = FALSE]}
  /\ Go(j, "removing")
  /\ UNCHANGED <<does, at, tries, disk, remote, reached, attached, sent>>

\* post_yt_video after the download, without a with block: it may have no client, or
\* look for the file under another extension.
PostYtVideo(j) ==
  /\ pc[j] = "inside"
  /\ Kind(j) = "yt"
  /\ \/ Go(j, "left") /\ UNCHANGED disk
     \/ /\ disk' = disk \ {Local(j)}
        /\ Go(j, IF Local(j) \in disk THEN "finishing" ELSE "raised")
  /\ UNCHANGED <<does, at, ok, tries, remote, reached, attached, sent>>

Attach(j, what) == attached' = [attached EXCEPT ![j] = Append(@, what)]

\* Mutant: a file that cannot be uploaded is left out.
UploadOrSkip(j) ==
  /\ pc[j] = "inside"
  /\ Kind(j) \in Messages
  /\ \/ Media(j) # "video" /\ Attach(j, Media(j))
     \/ UNCHANGED attached
  /\ Go(j, "removing")
  /\ UNCHANGED <<does, at, ok, tries, disk, remote, reached, sent>>

\* file_to_vk_attachment: a photo or a document is uploaded, or raises after three
\* tries; a video is None, which api_send_message_vk leaves out and
\* send_vk_message keeps.
Upload(j) ==
  /\ pc[j] = "inside"
  /\ Kind(j) \in Messages
  /\ \/ /\ Media(j) # "video"
        /\ Attach(j, Media(j)) /\ UNCHANGED ok
     \/ /\ Media(j) # "video"
        /\ ok' = [ok EXCEPT ![j] = FALSE] /\ UNCHANGED attached
     \/ /\ Media(j) = "video"
        /\ IF Kind(j) = "form" THEN Attach(j, "none") ELSE UNCHANGED attached
        /\ UNCHANGED ok
  /\ Go(j, "removing")
  /\ UNCHANGED <<does, at, tries, disk, remote, reached, sent>>

\* Past the with block: the next file, the reply or message, or the exception.
Leave(j) ==
  /\ Go(j, IF ~ok[j] THEN "raised" ELSE IF MoreFiles(j) THEN "opening" ELSE "finishing")
  /\ at' = [at EXCEPT ![j] = IF ok[j] /\ MoreFiles(j) THEN @ + 1 ELSE @]

\* Mutant: a body that raised takes __aexit__ with it.
RemovesIfFine(j) ==
  /\ pc[j] = "removing"
  /\ disk' = IF ok[j] THEN disk \ {Local(j)} ELSE disk
  /\ Leave(j)
  /\ UNCHANGED <<does, ok, tries, remote, reached, attached, sent>>

\* TempFileBase.__aexit__, also after a body that raised.  Cancelled here, the
\* removal is made all the same, but no other.
RemoveLocal(j) ==
  /\ pc[j] = "removing"
  /\ disk' = disk \ {Local(j)}
  /\ \/ Kind(j) \in Fetched /\ Go(j, "cleaning") /\ UNCHANGED at
     \/ Kind(j) \notin Fetched \cup {"dump"} /\ Leave(j)
     \/ Kind(j) = "dump" /\ Go(j, "done") /\ UNCHANGED at
     \/ Kind(j) # "dump" /\ Go(j, "raised") /\ UNCHANGED at
  /\ UNCHANGED <<does, ok, tries, remote, reached, attached, sent>>

\* Mutant: a file that is gone already is no failure.
RemovesIfThere(j) ==
  /\ pc[j] = "cleaning"
  /\ remote' = remote \ {Source(j)}
  /\ Leave(j)
  /\ UNCHANGED <<does, ok, tries, disk, reached, attached, sent>>

\* auto_remove.  SFTP refuses to remove what is not there; S3 does not mind, and a
\* lost connection to it is only logged.
RemoveRemote(j) ==
  /\ pc[j] = "cleaning"
  /\ \/ /\ Kind(j) = "sftp" => RemoteHas(j)
        /\ remote' = remote \ {Source(j)}
        /\ Leave(j)
     \/ Kind(j) = "s3" /\ Leave(j) /\ UNCHANGED remote
     \/ Go(j, "raised") /\ UNCHANGED <<at, remote>>
  /\ UNCHANGED <<does, ok, tries, disk, reached, attached, sent>>

\* VK takes the message, or raises, or both when its answers are lost.
Finish(j) ==
  /\ pc[j] = "finishing"
  /\ IF Kind(j) \in Messages
     THEN \/ /\ \A i \in DOMAIN attached[j] : attached[j][i] # "none"
             /\ sent' = sent \cup {<<j, attached[j]>>}
             /\ \E s \in {"done", "raised"} : Go(j, s)
          \/ Go(j, "raised") /\ UNCHANGED sent
     ELSE \* ctx.success; or there is no client to post a link with
          /\ \/ Go(j, "done")
             \/ Kind(j) = "yt" /\ Go(j, "raised")
          /\ UNCHANGED sent
  /\ UNCHANGED <<does, at, ok, tries, disk, remote, reached, attached>>

-----------------------------------------------------------------------------
(* DumperService *)

Again(j, s, end) ==
  IF tries[j] < MaxTries
  THEN tries' = [tries EXCEPT ![j] = @ + 1] /\ Go(j, s)
  ELSE tries' = [tries EXCEPT ![j] = 1] /\ Go(j, end)

\* dump_db: the shell makes the file before pg_dump fails or does not.  After the
\* last failure it is left where it is.
DumpDb(j) ==
  /\ pc[j] = "dumping"
  /\ OnDisk(j)
  /\ \/ tries' = [tries EXCEPT ![j] = 1] /\ Go(j, "mailing")
     \/ Again(j, "dumping", "left")
  /\ UNCHANGED <<does, at, ok, remote, reached, attached, sent>>

\* send_dump_file: the dump is removed after the last try, sent or not.  VkClient()
\* may raise, and close() may cancel, outside of the try.
SendDumpFile(j) ==
  /\ pc[j] = "mailing"
  /\ \/ /\ sent' = sent \cup {<<j, does[j].media>>}
        /\ Go(j, "removing") /\ UNCHANGED tries
     \/ /\ sent' \in {sent, sent \cup {<<j, does[j].media>>}}
        /\ Again(j, "mailing", "removing")
     \/ Go(j, "left") /\ UNCHANGED <<tries, sent>>
  /\ UNCHANGED <<does, at, ok, disk, remote, reached, attached>>

\* The process dies.
Dies(j) ==
  /\ pc[j] \in Running
  /\ Go(j, "lost")
  /\ UNCHANGED <<does, at, ok, tries, disk, remote, reached, attached, sent>>

Next == \E j \in Jobs :
  \/ Begin(j) \/ OpenRaises(j) \/ StatRemote(j) \/ OpenLocal(j) \/ NothingToOpen(j)
  \/ Enter(j) \/ Cut(j) \/ UseFile(j) \/ PostYtVideo(j) \/ Upload(j)
  \/ RemoveLocal(j) \/ RemoveRemote(j) \/ Finish(j)
  \/ DumpDb(j) \/ SendDumpFile(j) \/ Dies(j)

Spec == Init /\ [][Next]_vars

-----------------------------------------------------------------------------
(* Properties *)

\* A file on the disk belongs to a job at work, or its write was cut, its process
\* died, or it was made outside of a with block by a job that raised before its
\* os.remove (YouTube, dumps): whatever else a job meets after __aenter__, also in
\* another job's file of the same title, it leaves nothing (files.py 40-45,
\* vk.py 121-126, db_dumper/service.py 38-52).
FilesAreAccountedFor ==
  \A f \in disk : \E j \in Jobs :
    /\ Local(j) = f
    /\ pc[j] \in Holding \cup {"cut", "left", "lost"}

\* The original of a post is removed only after some delivery of it had it whole: a
\* fetch that fails in between, or finds it gone, does not take it along
\* (files.py 113-128, 144-162).
SourceIsKept ==
  \A r \in Sources \ remote : \E j \in reached : Source(j) = r

\* Of several deliveries of one SFTP post at most one is answered with success: to
\* remove the file decides it (files.py 127, sftp.py 33, service.py 198-212).
OneSftpSuccess ==
  \A j, k \in Jobs :
    /\ Kind(j) = "sftp" /\ Kind(k) = "sftp" /\ Source(j) = Source(k)
    /\ pc[j] = "done" /\ pc[k] = "done"
    => j = k

\* seq is what VK takes of the first n files of media, in their order: its members
\* come from places that go up, and those are the places of all that is no video.
TakenOf(seq, media, n) ==
  \E from \in [DOMAIN seq -> 1..n] :
    /\ \A i, k \in DOMAIN seq : i < k => from[i] < from[k]
    /\ \A i \in DOMAIN seq : seq[i] = media[from[i]]
    /\ {from[i] : i \in DOMAIN seq} = {k \in 1..n : media[k] # "video"}

\* A message comes with all the files given for it that VK takes, in their order,
\* or does not come; that of the web form comes with all files
\* (messages.py 44-57 of rest_api, 44-65 of web).
SentWhole ==
  \A m \in sent :
    LET media == does[m[1]].media IN
      /\ TakenOf(m[2], media, Len(media))
      /\ Kind(m[1]) = "form" => m[2] = media
=============================================================================
