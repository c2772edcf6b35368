----------------------------- MODULE FileLoader -----------------------------
(***************************************************************************)
(* td/telegram/files: FileLoader, its PartsManager and its ResourceState,  *)
(* as FileDownloader and FileUploader use them, with the ResourceManager   *)
(* that hands out the right to transfer and the server that answers.       *)
(*                                                                         *)
(* The loader is one record c; each method is an operator on it, so that   *)
(* nested calls compose as in the code.  Sizes are counted in units of     *)
(* which PartSize make a part.  The parts of a secret file are put in      *)
(* order by an OrderedEventsProcessor, whose variables are those of the    *)
(* module that is extended.                                                *)
(***************************************************************************)
EXTENDS OrderedEventsProcessor, FiniteSets, FiniteSetsExt, SequencesExt, TLC

CONSTANTS
  PartSize,      \* part_size_
  MinExpected,   \* the expected size of a file of unknown size (512 KB)
  MaxActive,     \* what a ResourceManager hands out (2 MB)
  MaxPartCount,  \* MAX_PART_COUNT
  Transfers,     \* the transfers that Init chooses from
  Offsets, Limits, \* what downloadFile may ask for
  MaxTroubles    \* bound on failures, requests of the user, and restarts

ASSUME FileAssumption ==
  /\ {PartSize, MinExpected, MaxActive, MaxPartCount} \subseteq Nat \ {0}
  /\ \A t \in Transfers :
       /\ t.kind \in {"plain", "secret", "secure", "upload"}
       /\ t.size \in Nat \ {0}                       \* the size of the file
       /\ t.given \in {0, t.size}                    \* the size that is given, or 0
       /\ t.given = 0 => t.kind # "secret"
       /\ t.kind = "secret" => t.ready = 0 .. FirstSeqNo - 1
       /\ t.steered \in BOOLEAN                       \* do its users change their mind?
       /\ t.cdn \in BOOLEAN                           \* may a download be sent elsewhere?
       /\ t.share \in PartSize .. MaxActive           \* what other loaders leave of MaxActive

VARIABLES
  file,      \* the transfer
  c,         \* the FileLoader
  node,      \* the state of the loader as the ResourceManager knows it
  up, down,  \* ResourceStates on their way to the manager, limits on their way back
  troubles

loaderVars == <<file, c, node, up, down, troubles>>

Unlimited == 2 * MaxPartCount * PartSize  \* the largest int64

Min2(a, b) == IF a < b THEN a ELSE b
Max2(a, b) == IF a > b THEN a ELSE b
CeilDiv(a, b) == (a + b - 1) \div b

IsUpload == file.kind = "upload"

(* a failed CHECK aborts the process *)
Check(d, condition) == IF condition THEN d ELSE [d EXCEPT !.stop = "abort"]

(* on_error of the loader: the status is reported and stop_flag_ is set *)
Fail(d, status) ==
  IF d.stop = "no" THEN [d EXCEPT !.stop = status, !.told = status] ELSE d
-----------------------------------------------------------------------------
(* PartsManager: part i has its status at i + 1                            *)

PartCount(d) == Len(d.status)

(* get_part(i).size *)
SizeOfPart(d, i) ==
  LET total == IF d.unknown THEN d.max_size ELSE d.size
  IN IF total < PartSize * i THEN 0 ELSE Min2(PartSize, total - PartSize * i)

ExpectedSize(d) == IF d.unknown THEN Max2(MinExpected, 2 * d.ready_size) ELSE d.size

PartsOf(d, status) == { i \in 0 .. PartCount(d) - 1 : d.status[i + 1] = status }

IsPartInStreamingLimit(d, i) ==
  LET first == PartSize * i
      last == first + SizeOfPart(d, i)
      Meets(a, b) == Max2(a, first) < Min2(b, last)
      streaming_end == d.streaming_offset + d.streaming_limit
  IN /\ first < ExpectedSize(d)
     /\ \/ d.streaming_limit = 0
        \/ Meets(d.streaming_offset, streaming_end)
        \/ ~d.unknown /\ streaming_end > d.size /\ Meets(0, streaming_end - d.size)

(* the first part from i on whose status is not in S, or the end *)
SkipFrom(d, i, S) ==
  Min({ Max2(i, PartCount(d)) } \cup { j \in i .. PartCount(d) - 1 : d.status[j + 1] \notin S })

UpdateFirstEmptyPart(d) ==
  LET e == [d EXCEPT !.first_empty = SkipFrom(d, @, {"Pending", "Ready"})]
  IN [e EXCEPT !.first_streaming_empty =
        IF e.streaming_offset = 0 THEN e.first_empty
        ELSE SkipFrom(e, @, {"Pending", "Ready"})]

(* pending parts are taken for ready ones *)
UpdateFirstNotReadyPart_Pending(d) ==
  LET e == [d EXCEPT !.first_not_ready = SkipFrom(d, @, {"Pending", "Ready"})]
  IN [e EXCEPT !.first_streaming_not_ready = e.first_not_ready]

UpdateFirstNotReadyPart(d) ==
  LET e == [d EXCEPT !.first_not_ready = SkipFrom(d, @, {"Ready"})]
  IN [e EXCEPT !.first_streaming_not_ready =
        IF e.streaming_offset = 0 THEN e.first_not_ready
        ELSE SkipFrom(e, @, {"Ready"})]

(* what streaming_ready_size_ has to be *)
StreamingReady(d) ==
  MapThenSumSet(LAMBDA i : SizeOfPart(d, i),
                { i \in PartsOf(d, "Ready") : IsPartInStreamingLimit(d, i) })

SetStreamingLimit(d, limit) ==
  LET e == [d EXCEPT !.streaming_limit = limit]
  IN [e EXCEPT !.streaming_ready_size = IF limit = 0 THEN 0 ELSE StreamingReady(e)]

(* the first `count' parts, those that are new empty *)
Resized(d, count) ==
  [k \in 1 .. count |-> IF k <= PartCount(d) THEN d.status[k] ELSE "Empty"]

(* streaming_ready_size_ is not counted anew *)
SetStreamingOffset_ReadyKept(d, from) ==
  LET i == from \div PartSize
  IN IF ~d.unknown /\ d.size < from THEN [d EXCEPT !.streaming_offset = 0]
     ELSE [d EXCEPT !.streaming_offset = from, !.status = Resized(d, Max2(i, PartCount(d))),
                    !.first_streaming_empty = i, !.first_streaming_not_ready = i]

(* the negative offsets and the files that need a check are left out *)
SetStreamingOffset(d, from) ==
  LET i == from \div PartSize
  IN SetStreamingLimit(
       IF ~d.unknown /\ d.size < from THEN [d EXCEPT !.streaming_offset = 0]
       ELSE [d EXCEPT !.streaming_offset = from, !.status = Resized(d, Max2(i, PartCount(d))),
                      !.first_streaming_empty = i, !.first_streaming_not_ready = i],
       d.streaming_limit)

Ready(d) == ~d.unknown /\ d.ready_size = d.size

(* is_streaming_limit_reached, after update_first_not_ready_part *)
IsStreamingLimitReached(d) ==
  /\ d.streaming_limit # 0
  /\ ~IsPartInStreamingLimit(d,
        IF ~d.unknown /\ d.first_streaming_not_ready = PartCount(d)
          THEN d.first_not_ready ELSE d.first_streaming_not_ready)

(* the part of the size that is in the streaming limit, in whole parts *)
StreamingSize(d) ==
  LET expected == ExpectedSize(d)
      first == (d.streaming_offset \div PartSize) * PartSize
      last == CeilDiv(d.streaming_offset + d.streaming_limit, PartSize) * PartSize
      inside == d.streaming_offset < d.expected_size
      suffix == IF inside THEN d.expected_size - first ELSE 0
      rest == d.streaming_limit - IF inside THEN d.expected_size - d.streaming_offset ELSE 0
  IN IF d.unknown THEN IF first < expected THEN Min2(expected - first, last - first) ELSE 0
     ELSE IF last > expected THEN Min2(expected, CeilDiv(rest, PartSize) * PartSize + suffix)
     ELSE last - first

(* get_estimated_extra without its CHECKs *)
EstimatedExtra(d) ==
  IF d.streaming_limit = 0 THEN ExpectedSize(d) - d.ready_size
  ELSE StreamingSize(d) - d.streaming_ready_size

(* the CHECKs of get_estimated_extra *)
StreamingChecks(d) ==
  d.streaming_limit # 0 =>
    d.streaming_ready_size = StreamingReady(d) /\ EstimatedExtra(d) >= 0

OnPartOk(d, i, part_size, actual_size) ==
  LET last == PartSize * i + actual_size
      e == [d EXCEPT !.status[i + 1] = "Ready",
                     !.bitmask = IF actual_size # 0 THEN @ \cup {i} ELSE @,
                     !.ready_size = @ + actual_size]
      s == [e EXCEPT !.streaming_ready_size =
              @ + IF e.streaming_limit > 0 /\ IsPartInStreamingLimit(e, i)
                    THEN actual_size ELSE 0]
      max_size == IF actual_size < PartSize THEN Min2(s.max_size, last) ELSE s.max_size
      min_size == IF actual_size # 0 THEN Max2(s.min_size, last) ELSE s.min_size
      u == [s EXCEPT !.max_size = max_size, !.min_size = min_size]
  IN IF d.unknown
       THEN Check(IF min_size > max_size THEN Fail(u, "error")
                  ELSE IF min_size = max_size
                    THEN [u EXCEPT !.unknown = FALSE, !.size = min_size]
                  ELSE u,
                  part_size = PartSize /\ d.status[i + 1] = "Pending")
       ELSE Check(IF \/ actual_size < part_size /\ PartSize * i < s.size
                     \/ actual_size > 0 /\ PartSize * i >= s.size
                    THEN Fail(s, "error") ELSE s,
                  d.status[i + 1] = "Pending")

(* first_empty_part_ stays behind the part *)
OnPartFailed_NotLowered(d, i) == [d EXCEPT !.status[i + 1] = "Empty"]

OnPartFailed(d, i) ==
  LET e == [d EXCEPT !.status[i + 1] = "Empty", !.first_empty = Min2(@, i)]
  IN Check([e EXCEPT !.first_streaming_empty =
              IF \/ e.streaming_offset = 0
                 \/ i >= e.streaming_offset \div PartSize /\ i < @
                THEN i ELSE @],
           d.status[i + 1] = "Pending")

(* the growing file of an upload; size_ is known when it is ready *)
SetKnownPrefix(d, size, is_ready) ==
  LET count == IF is_ready THEN CeilDiv(size, PartSize) ELSE size \div PartSize
      e == [d EXCEPT !.prefix = IF is_ready THEN -1 ELSE size,
                     !.expected_size = Max2(@, size),
                     !.size = IF is_ready THEN size ELSE @,
                     !.unknown = ~is_ready,
                     !.status = Resized(d, count)]
  IN IF d.prefix = -1 \/ size < d.prefix THEN Fail(d, "error")
     ELSE Check(IF CeilDiv(e.expected_size, PartSize) > MaxPartCount THEN Fail(e, "error") ELSE e,
                count >= PartCount(d))
-----------------------------------------------------------------------------
(* ResourceState and ResourceManager                                       *)

Unused(d) == d.limit - d.using - d.used

StartUse(d, x) == Check([d EXCEPT !.using = @ + x], d.used + d.using + x <= d.limit)

StopUse(d, x) == Check([d EXCEPT !.using = @ - x, !.used = @ + x], x <= d.using)

(* what the loader does not need is used up at once *)
LimitFor(d, extra) ==
  LET estimated == d.used + d.using + extra - Min2(d.using, extra)
  IN [d EXCEPT !.estimated_limit = Max2(estimated, d.limit),
               !.used = @ + Max2(d.limit - estimated, 0)]

(* send_closure(resource_manager_, update_resources, resource_state_) *)
SendState(d) ==
  [d EXCEPT !.outbox = Append(@, [estimated_limit |-> d.estimated_limit,
                                  used |-> d.used, using |-> d.using])]

UpdateEstimatedLimit(d) ==
  IF d.stop # "no" THEN d
  ELSE LET e == LimitFor(d, EstimatedExtra(d))
       IN Check(IF e.managed THEN SendState(e) ELSE e, StreamingChecks(d))

(* estimated_extra: what is missing, in whole parts *)
Needed(n) ==
  LET unused == Max2(n.limit, n.estimated_limit) - n.using - n.used
  IN CeilDiv(CeilDiv(unused, PartSize) * PartSize + n.using + n.used - n.limit, PartSize) * PartSize

(* what the loader already has is not counted *)
Give_ActiveIgnored(n) == (Min2(Needed(n), file.share) \div PartSize) * PartSize

(* satisfy_node, with what other loaders leave of the 2 MB that loop() offers *)
Give(n) ==
  LET give == Min2(Needed(n), file.share - (n.limit - n.used))
  IN (give \div PartSize) * PartSize
-----------------------------------------------------------------------------
(* FileLoader, with the parts of FileDownloader and FileUploader it calls  *)

(* on_progress: what a new loader would start from.  A finished download   *)
(* does not report its parts, a finished upload is reported here only.     *)
OnProgress(d) ==
  LET e == UpdateFirstNotReadyPart(d)
      count == e.first_not_ready
  IN IF IsUpload
       THEN [e EXCEPT !.saved = 0 .. count - 1,
                      !.told = IF Ready(e) THEN "ok" ELSE @]
     ELSE IF Ready(e) \/ e.ready_size = 0 THEN e
     ELSE Check([e EXCEPT !.saved = e.bitmask,
                          !.saved_size = IF file.kind # "secure" /\ e.size # 0
                                           THEN e.size ELSE @],
                file.kind = "secret" => count = e.next_part)

(* PartsManager::start_part and the query for the part; nothing is started *)
(* when the prefix is not known, all parts are taken, or the limit is met. *)
RECURSIVE StartParts(_)
StartParts(d) ==
  LET e == UpdateFirstEmptyPart(d)
      i == e.first_streaming_empty
      g == [e EXCEPT !.status = Append(@, "Empty")]
      Start(f, k) ==
        LET size == SizeOfPart(f, k)
            p == [f EXCEPT !.status[k + 1] = "Pending"]
        IN IF ~IsPartInStreamingLimit(f, k) THEN f
           ELSE IF size = 0 THEN p
           ELSE StartParts(StartUse(
                  [p EXCEPT !.queries = @ @@ (k :> [size |-> size, cancelled |-> FALSE])], size))
  IN IF d.stop # "no" \/ Unused(d) < PartSize THEN d
     ELSE IF e.prefix # -1 /\ i >= e.prefix \div PartSize THEN e
     ELSE IF i < PartCount(e) THEN Start(e, i)
     ELSE IF e.unknown
       THEN IF PartCount(e) = MaxPartCount THEN Fail(e, "error") ELSE Start(g, i)
     ELSE IF e.first_empty < PartCount(e) THEN Start(e, e.first_empty)
     ELSE e

(* loop, do_loop.  on_ok of a download reports it, on_ok of an upload does *)
(* not.                                                                    *)
Loop(d) ==
  LET e == UpdateFirstNotReadyPart(d)
  IN IF d.stop # "no" THEN d
     ELSE IF Ready(e) THEN [e EXCEPT !.stop = "ok", !.told = IF IsUpload THEN @ ELSE "ok"]
     ELSE IF IsStreamingLimitReached(e) THEN Fail(e, "limit")
     ELSE StartParts(e)

(* do_loop when the disk fails: a finished download cannot be put in its   *)
(* place, the file of an upload cannot be opened or read.  A file that is  *)
(* still made may also be opened by a later loop().                        *)
BrokenLoop(d) ==
  IF d.stop # "no" \/ Ready(d) = IsUpload THEN {}
  ELSE {Fail(d, "error")} \cup (IF IsUpload /\ d.prefix # -1 THEN {d} ELSE {})

(* what the server has at part i *)
Served(i) == Min2(PartSize, Max2(0, file.size - PartSize * i))

(* on_part_query: FileDownloader::process_part writes the part,            *)
(* FileUploader::process_part takes the server's word for it.  The parts   *)
(* of a secret file have to be decrypted in order, and none follows a part *)
(* that is not a multiple of the cipher's block, here any short part.      *)
OnPartQuery(d, i, size, answer) ==
  LET actual == IF IsUpload THEN size ELSE Served(i)
      secret == file.kind = "secret"
      w == IF actual = 0 THEN d
           ELSE Check([d EXCEPT !.written = @ \cup {i},
                                !.next_part = IF secret THEN @ + 1 ELSE @,
                                !.next_part_stop = secret /\ size < PartSize],
                      secret => d.next_part = i /\ ~d.next_part_stop)
      e == OnPartOk(StopUse(w, size), i, size, actual)
  IN IF d.stop # "no" THEN d
     ELSE IF answer = "error" \/ actual > size THEN Fail(d, "error")
     ELSE IF e.stop # "no" THEN e
     ELSE OnProgress(e)

(* the constructor and start_up of a loader that finds the parts `ready'   *)
StartUp(size, prefix, ready, from, limit, d0) ==
  LET unknown == size = 0
      count == IF unknown THEN Max({0} \cup { i + 1 : i \in ready }) ELSE CeilDiv(size, PartSize)
      d == [status |-> [k \in 1 .. count |-> IF k - 1 \in ready THEN "Ready" ELSE "Empty"],
            bitmask |-> ready, size |-> size, expected_size |-> Max2(size, prefix),
            prefix |-> prefix, unknown |-> unknown, min_size |-> 0, max_size |-> Unlimited,
            ready_size |-> 0, streaming_ready_size |-> 0,
            first_empty |-> 0, first_not_ready |-> 0,
            streaming_offset |-> 0, streaming_limit |-> 0,
            first_streaming_empty |-> 0, first_streaming_not_ready |-> 0,
            estimated_limit |-> 0, limit |-> 0, used |-> 0, using |-> 0, outbox |-> <<>>,
            managed |-> FALSE, yield |-> TRUE, queries |-> <<>>, stop |-> "no", told |-> "no",
            next_part |-> Cardinality(ready), next_part_stop |-> FALSE,
            written |-> d0.written, saved |-> d0.saved, saved_size |-> d0.saved_size]
      e == [d EXCEPT !.ready_size = MapThenSumSet(LAMBDA i : SizeOfPart(d, i), ready)]
  IN IF IsUpload /\ \E i \in ready : \/ prefix # -1 /\ i >= prefix \div PartSize
                                     \/ i >= count
       THEN Fail(d, "error")
       ELSE OnProgress(UpdateEstimatedLimit(
              SetStreamingLimit(SetStreamingOffset(e, from), limit)))
-----------------------------------------------------------------------------
NoNode == [estimated_limit |-> 0, limit |-> 0, used |-> 0, using |-> 0]

Troubles(k) == troubles + k <= MaxTroubles /\ troubles' = troubles + k

Becomes(d) ==
  /\ c' = [d EXCEPT !.outbox = <<>>]
  /\ up' = up \o d.outbox

(* a handler leaves d and ends with loop(); k troubles led to it *)
EndsInLoop(d, k) ==
  \/ Becomes(Loop(d)) /\ Troubles(k)
  \/ \E broken \in BrokenLoop(d) : Becomes(broken) /\ Troubles(k + 1)

(* most handlers of the loader do nothing once stop_flag_ is set *)
Active == c.stop = "no"

LoaderInit ==
  /\ Init
  /\ file \in Transfers
  /\ \E from \in Offsets, limit \in Limits :
       LET d == StartUp(file.given, file.prefix, file.ready,
                        IF file.steered /\ file.kind = "plain" THEN from ELSE 0,
                        IF file.steered /\ ~IsUpload THEN limit ELSE 0,
                        [written |-> file.ready, saved |-> file.ready, saved_size |-> 0])
       IN c = d
  /\ node = NoNode /\ up = <<>> /\ down = <<>>
  /\ troubles = 0

(* the manager has registered the loader, and learns its state *)
SetResourceManager ==
  /\ Active /\ ~c.managed
  /\ Becomes(SendState([c EXCEPT !.managed = TRUE]))
  /\ UNCHANGED <<vars, file, node, down, troubles>>

(* the loop() that start_up asks for with yield() *)
Yield ==
  /\ Active /\ c.yield
  /\ EndsInLoop([c EXCEPT !.yield = FALSE], 0)
  /\ UNCHANGED <<vars, file, node, down>>

(* ResourceManager::update_resources: the state is noted, and loop() gives *)
(* what is missing and free                                                *)
ManagerUpdate ==
  LET n == Head(up) @@ node
      give == Give(n)
  IN /\ up # <<>>
     /\ up' = Tail(up)
     /\ node' = [n EXCEPT !.limit = @ + give]
     /\ down' = IF give = 0 THEN down ELSE Append(down, n.limit + give)
     /\ UNCHANGED <<vars, file, c, troubles>>

UpdateResources ==
  /\ Active /\ down # <<>>
  /\ down' = Tail(down)
  /\ EndsInLoop([c EXCEPT !.limit = Head(down)], 0)
  /\ UNCHANGED <<vars, file, node>>

(* on_result for a query that was cancelled in time, or for one that       *)
(* should_restart_part has to ask again, of the CDN or not of it           *)
Restarted(i) ==
  LET q == c.queries[i]
      d == [c EXCEPT !.queries = [k \in DOMAIN @ \ {i} |-> @[k]]]
  IN /\ Active /\ (q.cancelled \/ file.cdn)
     /\ EndsInLoop(UpdateEstimatedLimit(OnPartFailed(StopUse(d, q.size), i)),
                   IF q.cancelled THEN 0 ELSE 1)
     /\ UNCHANGED <<vars, file, node, down>>

(* on_result; the parts of a secret file go through ordered_parts_ *)
Result(i, answer, k) ==
  LET q == c.queries[i]
      d == [c EXCEPT !.queries = [j \in DOMAIN @ \ {i} |-> @[j]]]
      Handle(e, x) == OnPartQuery(e, x[1], SizeOfPart(e, x[1]), x[2])
  IN /\ Active
     /\ IF file.kind = "secret"
          THEN /\ IF i = begin THEN AddNow(answer) ELSE AddLater(i, answer)
               /\ EndsInLoop(UpdateEstimatedLimit(
                    FoldLeft(Handle, d, SubSeq(ran', Len(ran) + 1, Len(ran')))), k)
          ELSE /\ EndsInLoop(UpdateEstimatedLimit(OnPartQuery(d, i, q.size, answer)), k)
               /\ UNCHANGED vars
     /\ UNCHANGED <<file, node, down>>

Answered(i) == Result(i, "data", 0)

Refused(i) == Result(i, "error", 1)

UpdateDownloadOffset(from) ==
  /\ Active /\ file.steered /\ file.kind = "plain"
  /\ EndsInLoop(UpdateEstimatedLimit(
       IF c.streaming_offset = from THEN c
       ELSE [SetStreamingOffset(c, from) EXCEPT
               !.queries = [k \in DOMAIN @ |-> [@[k] EXCEPT !.cancelled = TRUE]]]), 1)
  /\ UNCHANGED <<vars, file, node, down>>

UpdateDownloadLimit(limit) ==
  /\ Active /\ file.steered /\ ~IsUpload
  /\ EndsInLoop(UpdateEstimatedLimit(SetStreamingLimit(c, limit)), 1)
  /\ UNCHANGED <<vars, file, node, down>>

(***************************************************************************)
(* A file that is uploaded while it is made has grown to `size', or is     *)
(* ready.  The uploader does not look at stop_flag_ here.  It is a trouble *)
(* if the file has become shorter, or if the uploader already had all of   *)
(* it: both are answered with FILE_UPLOAD_RESTART.                         *)
(***************************************************************************)
UpdateLocalFileLocation(size, is_ready) ==
  /\ IsUpload
  /\ is_ready => size = file.size
  /\ is_ready \/ size # c.prefix
  /\ EndsInLoop(SetKnownPrefix(c, size, is_ready),
                IF c.prefix = -1 \/ size < c.prefix THEN 1 ELSE 0)
  /\ UNCHANGED <<vars, file, node, down>>

(* the transfer is cancelled, fails or is interrupted, and is started      *)
(* again with what on_progress has left                                    *)
Restart(from, limit) ==
  /\ file.steered /\ file.kind # "secret" /\ Troubles(1)
  /\ c.stop # "abort" /\ c.told # "ok"
  /\ LET d == StartUp(IF c.saved_size # 0 THEN c.saved_size ELSE file.given,
                      -1, c.saved, IF file.kind = "plain" THEN from ELSE 0,
                      IF IsUpload THEN 0 ELSE limit, c)
     IN c' = d
  /\ node' = NoNode /\ up' = <<>> /\ down' = <<>>
  /\ UNCHANGED <<vars, file>>

TearDown ==
  /\ c.stop # "no" /\ file.kind = "secret"
  /\ Clear
  /\ UNCHANGED loaderVars

(* what is on its way to the loader, or about to be: messages, answers,    *)
(* its own yield, the file that gets ready                                 *)
Progress ==
  \/ SetResourceManager
  \/ Yield
  \/ UpdateResources
  \/ \E i \in DOMAIN c.queries : Answered(i)
  \/ c.prefix # -1 /\ UpdateLocalFileLocation(file.size, TRUE)

LoaderNext ==
  \/ Progress \/ ManagerUpdate
  \/ \E i \in DOMAIN c.queries : Restarted(i) \/ Refused(i)
  \/ \E size \in 1 .. file.size, is_ready \in BOOLEAN : UpdateLocalFileLocation(size, is_ready)
  \/ \E from \in Offsets : UpdateDownloadOffset(from)
  \/ \E limit \in Limits : UpdateDownloadLimit(limit)
  \/ \E from \in Offsets, limit \in Limits : Restart(from, limit)
  \/ TearDown

LoaderSpec == LoaderInit /\ [][LoaderNext]_<<vars, loaderVars>>

(* ENABLED Progress *)
CanProgress ==
  \/ c.prefix # -1
  \/ Active /\ (~c.managed \/ c.yield \/ down # <<>> \/ DOMAIN c.queries # {})

(* the manager's actor runs, and so does the loader's: the second conjunct *)
(* is WF_<<vars, loaderVars>>(Progress), written out                       *)
FairLoaderSpec ==
  /\ LoaderSpec
  /\ WF_<<vars, loaderVars>>(ManagerUpdate)
  /\ []<>~CanProgress \/ []<><<Progress>>_<<vars, loaderVars>>
-----------------------------------------------------------------------------
(***************************************************************************)
(* No CHECK of PartsManager, ResourceState and FileDownloader fails while  *)
(* a loader runs, however answers, cancellations, changes of the offset    *)
(* and the limit, new limits of the manager and restarts follow each       *)
(* other: only pending parts are answered, the size of the parts in the    *)
(* streaming limit is counted right, no part is started without the right  *)
(* to, and the parts of a secret file are decrypted in order.              *)
(*                                                                         *)
(* This holds of files whose size is known, or that are loaded whole.  It  *)
(* fails when the size of a file is found out under a limit: the run       *)
(* file_loader_unknown_size shows the CHECK of PartsManager.cpp:429.  And  *)
(* it leaves out a loader that has reported its failure: the upload of a   *)
(* growing file whose start_up failed with FILE_UPLOAD_RESTART still gets  *)
(* update_local_file_location, which does not look at stop_flag_, and then *)
(* the LOG_CHECK of PartsManager.cpp:314 fails.                            *)
(***************************************************************************)
NeverAborts == c.stop = "abort" => c.told = "error"

(***************************************************************************)
(* What a loader reports can be relied on: every part that on_progress     *)
(* hands over for a later start is on the disk, or at the server, and a    *)
(* transfer that is reported as done has all parts and the right size,     *)
(* also when the size had to be found out from short and empty answers.    *)
(***************************************************************************)
SavedIsWritten ==
  /\ c.saved \subseteq c.written
  /\ c.told = "ok" => /\ 0 .. CeilDiv(file.size, PartSize) - 1 \subseteq c.written
                      /\ c.size = file.size

(***************************************************************************)
(* The accounts of loader and manager agree although each learns of the    *)
(* other's changes late: using_ is exactly the size of the parts that are  *)
(* requested or wait for an earlier part, and never more than the manager  *)
(* can give.                                                               *)
(***************************************************************************)
WithinLimits ==
  c.stop = "no" =>
    /\ c.using = MapThenSumSet(LAMBDA i : c.queries[i].size, DOMAIN c.queries)
                 + MapThenSumSet(LAMBDA i : SizeOfPart(c, i), { i \in DOMAIN given : i >= begin })
    /\ c.using <= file.share

(***************************************************************************)
(* Every transfer, also a restarted one, is reported as done, as failed or *)
(* as having reached its limit, provided that the actors run, the server   *)
(* answers and a file that is uploaded while it is made gets ready: the    *)
(* right to transfer is given again after it is used up, a cancelled part  *)
(* is asked for again, and an unknown size is found out.                   *)
(*                                                                         *)
(* This holds of files whose size is known, of unknown sizes that are      *)
(* loaded from the start, and of growing files that do not end with a      *)
(* whole part.  The run file_loader_silent shows that it fails of a        *)
(* growing file that does; it also fails of an unknown size that is loaded *)
(* again from a part, or from an offset beyond the end.                    *)
(* It also fails of a secret file that is loaded under a limit if a part   *)
(* has to be asked for again while later ones wait for it: their size is   *)
(* taken for the right to load it (ResourceState.h:34).                    *)
(***************************************************************************)
EveryTransferEnds == []<>(c.told # "no")
=============================================================================
