-------------------------------- MODULE Binlog --------------------------------
(***************************************************************************)
(* tddb/td/db/binlog/Binlog.cpp with detail/BinlogEventsProcessor: the     *)
(* append-only log of identified events in which TDLib keeps everything    *)
(* that must survive a restart.  An event is added, rewritten or erased by *)
(* appending a record; a reindex writes the live events to a second file   *)
(* `.new' that replaces the log.  The file may be encrypted with a stream  *)
(* cipher whose position is part of the state.                             *)
(*                                                                         *)
(* Modelled at the granularity of system calls: the process may be killed, *)
(* or the machine lose power, between any two of them.  Records have unit  *)
(* size, and the encryption header record, which opens every encrypted     *)
(* file and is written before anything else, is the field `key' of a file. *)
(* Directory operations are durable in the order they are issued.          *)
(***************************************************************************)
EXTENDS Integers, Sequences, SequencesExt, FiniteSets

CONSTANTS
  Vals,          \* the contents of events
  Empty,         \* ServiceTypes::Empty, the type of an erasing event
  Keys,          \* the non-empty encryption keys
  NoKey,         \* DbKey::empty()
  NoFile,        \* an absent file
  MaxId,         \* bound: the largest event identifier
  MaxOps,        \* bound: number of events ever added
  MaxCrashes,    \* bound: number of crashes
  MaxChanges,    \* bound: number of change_key calls
  MaxTotal,      \* bound: number of events, crashes and change_key calls together
  FlushAt,       \* lazy_flush writes more than this many buffered events
  ReindexMin,    \* need_reindex(min_size, rate)
  ReindexRate,
  CompactMin,    \* the constant 10 of the processor's compaction rule
  Tails,         \* what a power loss may leave behind the surviving records
  OddSizes,      \* the tails that decode to a length not divisible by 4
  OpenFails      \* for which old and new key of the log opening `.new' may fail

ASSUME BinlogAssumption ==
  /\ {MaxId, MaxOps, MaxCrashes, MaxChanges, MaxTotal, FlushAt, ReindexMin,
      CompactMin} \subseteq Nat
  /\ ReindexRate \in Nat \ {0}
  /\ Empty \notin Vals
  /\ NoKey \notin Keys
  /\ Tails \subseteq {"short", "zeros", "junk"}
  /\ OddSizes \subseteq {"zeros", "junk"}
  /\ OpenFails \subseteq (Keys \cup {NoKey}) \X (Keys \cup {NoKey})

VARIABLES
  main, new,    \* the files `path' and `path.new'
  phase,        \* state_, and how far a reindex or a destruction has come
  db_key, used, \* db_key_, db_key_used_
  ekey, ks,     \* key and position of the cipher of fd_; NoKey is no cipher
  proc,         \* processor_: the sequence of its ids_ and events_
  buffer,       \* buffer_writer_: events not yet given to write()
  fd_size, need_sync, last_id,
  known, asked, \* the key the user knows is set; the one a call is setting
  refused,      \* the last init was answered with Error::WrongPassword
  maps, durable, doomed,  \* history: the abstract map, see DurableMap
  fresh,        \* history: an event was added since the last init
  crashes, changes

files   == <<main, new>>
keyvars == <<db_key, used, ekey, ks>>
memory  == <<proc, buffer, fd_size, need_sync, last_id>>
user    == <<known, asked, refused>>
history == <<maps, durable, doomed, fresh, crashes, changes>>
vars    == <<main, new, phase, keyvars, memory, user, history>>

Ids == 1 .. MaxId
-----------------------------------------------------------------------------
(* The events processor *)

Event == [id : Ids, val : Vals \cup {Empty}, rewrite : BOOLEAN]

Entry == [id : Ids, dead : BOOLEAN, ev : Event]

LiveEntries(p) == SelectSeq(p, LAMBDA x : ~x.dead)

(* what for_each hands out, as a map *)
LiveMap(p) ==
  [i \in { p[j].id : j \in { k \in 1..Len(p) : ~p[k].dead } } |->
     (CHOOSE x \in Range(p) : x.id = i /\ ~x.dead).ev.val]

(* compactify(), when more than three quarters of the entries are dead *)
Compacted(p) ==
  IF Len(p) > CompactMin /\ (Len(p) - Len(LiveEntries(p))) * 4 > Len(p) * 3
    THEN LiveEntries(p)
    ELSE p

(* do_event returns OK: a rewrite finds its live entry, an addition comes  *)
(* after the last entry.  A rewrite beyond the last entry is an addition:  *)
(* it was one before a reindex dropped what it rewrote.                    *)
Accepts(p, e) ==
  IF e.rewrite /\ p # <<>> /\ Last(p).id >= e.id
    THEN \E j \in 1..Len(p) : p[j].id = e.id /\ ~p[j].dead
    ELSE e.val = Empty \/ p = <<>> \/ Last(p).id < e.id

(* the list after an accepted event *)
Processed(p, e) ==
  Compacted(
    IF e.rewrite /\ p # <<>> /\ Last(p).id >= e.id
      THEN [j \in 1..Len(p) |->
              IF p[j].id # e.id THEN p[j]
              ELSE IF e.val = Empty THEN [p[j] EXCEPT !.dead = TRUE]
              ELSE [p[j] EXCEPT !.ev = e]]
    ELSE IF e.val = Empty THEN p
    ELSE Append(p, [id |-> e.id, dead |-> FALSE, ev |-> e]))

(* last_id_ set by every event, rewrites of older ones too *)
LastId_OfEveryEvent(p, last, e) == e.id

(* last_id_ of the processor after an accepted event *)
LastId(p, last, e) ==
  IF (e.rewrite /\ p # <<>> /\ Last(p).id >= e.id) \/ e.val = Empty THEN last ELSE e.id

(* the processor after a sequence of events, and whether it accepted all *)
Replayed(events) ==
  FoldLeft(LAMBDA acc, e : [list |-> Processed(acc.list, e),
                            last |-> LastId(acc.list, acc.last, e),
                            ok   |-> acc.ok /\ Accepts(acc.list, e)],
           [list |-> <<>>, last |-> 0, ok |-> TRUE], events)
-----------------------------------------------------------------------------
(* Files.  A record keeps the position of the cipher it was written at:    *)
(* the reader, whose cipher is at position i when it reaches record i,     *)
(* decodes it only if the two agree.                                       *)

EmptyFile(key) ==
  [key |-> key, recs |-> <<>>, synced |-> 0, tail |-> "none", base |-> 1, snap |-> 0]

Encoded(events, pos) ==
  [i \in 1..Len(events) |-> [ev |-> events[i], pos |-> pos + i - 1]]

(* number of records of f that can be read back *)
Readable(f) ==
  IF f.key = NoKey THEN Len(f.recs)
  ELSE CHOOSE n \in 0..Len(f.recs) :
         /\ \A i \in 1..n : f.recs[i].pos = i
         /\ n < Len(f.recs) => f.recs[n + 1].pos # n + 1

Events(f, n) == [i \in 1..n |-> f.recs[i].ev]

(* f after write(events) at position pos of the cipher *)
Written(f, events, pos) == [f EXCEPT !.recs = @ \o Encoded(events, pos)]

(* need_sync_ after flush() of the buffer buf *)
FlushSync(buf) == IF Len(buf) > 0 THEN TRUE ELSE need_sync

Synced(f) == [f EXCEPT !.synced = Len(f.recs)]

(* f cut behind record n: seek, truncate_to_current_position *)
TruncatedTo(f, n) ==
  [f EXCEPT !.recs = SubSeq(@, 1, n), !.tail = "none",
            !.synced = IF @ < n THEN @ ELSE n]

(* what a power loss may leave of f: what was synced, a part of the rest,  *)
(* and something of the first lost record                                  *)
Survivors(f) ==
  IF f = NoFile THEN {NoFile}
  ELSE { [f EXCEPT !.recs = SubSeq(@, 1, n), !.synced = n, !.tail = t] :
           n \in f.synced .. Len(f.recs), t \in {"none"} }
       \cup
       { [f EXCEPT !.recs = SubSeq(@, 1, n), !.synced = n, !.tail = t] :
           n \in f.synced .. Len(f.recs) - 1, t \in Tails }
-----------------------------------------------------------------------------
Init ==
  /\ main = NoFile /\ new = NoFile
  /\ phase = "down"
  /\ db_key = NoKey /\ used = FALSE /\ ekey = NoKey /\ ks = 1
  /\ proc = <<>> /\ buffer = <<>>
  /\ fd_size = 0 /\ need_sync = FALSE /\ last_id = 0
  /\ known \in Keys \cup {NoKey} /\ asked = known /\ refused = FALSE
  /\ maps = <<[i \in {} |-> 0]>> /\ durable = 1 /\ doomed = FALSE
  /\ fresh = FALSE /\ crashes = 0 /\ changes = 0

(* the object is gone, or as it was constructed *)
Forget ==
  /\ db_key' = NoKey /\ used' = FALSE /\ ekey' = NoKey /\ ks' = 1
  /\ proc' = <<>> /\ buffer' = <<>>
  /\ fd_size' = 0 /\ need_sync' = FALSE /\ last_id' = 0

(* init(): the rename of an orphaned `.new', then open with Create *)
Opened ==
  IF main # NoFile THEN main ELSE IF new # NoFile THEN new ELSE EmptyFile(NoKey)

(* the second key is not tried *)
Unlocks_NoSecondTry(f, key, old) == f.key \in {NoKey, key}

(* the header's key matches db_key_, or old_db_key_ as a second try *)
Unlocks(f, key, old) == f.key \in {NoKey, key, old}

(* how load_binlog stops after the last readable record: at the end of the *)
(* file, at an event whose length is not a multiple of 4 (error -2), or at *)
(* anything else it cannot decode                                          *)
Stop(f) ==
  CASE Readable(f) = Len(f.recs) /\ f.tail = "none" -> "end"
    [] Readable(f) = Len(f.recs) /\ f.tail \in OddSizes
         /\ ~(f.key = NoKey /\ f.tail = "zeros") -> "odd"
    [] OTHER -> "bad"

(* the truncated log keeps being written without a reindex *)
DbKeyUsed_Kept(f, stop) == f.key = asked /\ f.key # NoKey

(* db_key_used_ at the end of load_binlog: reset when something had to be  *)
(* cut off, unless the file is already as long as what was read            *)
DbKeyUsed(f, stop) == f.key = asked /\ f.key # NoKey /\ stop # "bad"

NeedsReindex(f, stop) ==
  IF asked # NoKey THEN ~DbKeyUsed(f, stop) ELSE f.key # NoKey

(* Binlog::init with a key the file does not have: a mistyped key, or the  *)
(* empty key TdDb tries first to find out whether there is one.            *)
InitRefused(key, old) ==
  /\ phase = "down" /\ ~doomed
  /\ ~Unlocks(Opened, key, old)
  /\ main' = Opened
  /\ new' = IF main = NoFile THEN NoFile ELSE new
  /\ refused' = (refused \/ <<key, old>> = <<asked, known>>)
  /\ UNCHANGED <<phase, keyvars, memory, known, asked, history>>

(* Binlog::init with load_binlog: the log is read and cut behind the last  *)
(* readable event; a reindex follows if the key is not the wanted one or   *)
(* the cipher is not where the file ends.  An undecodable tail that is not *)
(* all zeros aborts the process after it was cut off.                      *)
InitLoad ==
  LET f     == Opened
      n     == Readable(f)
      stop  == Stop(f)
      r     == Replayed(Events(f, n))
      abort == stop = "odd" /\ ~(f.tail = "zeros")
  IN /\ phase = "down" /\ ~doomed
     /\ Unlocks(f, asked, known)
     /\ main' = TruncatedTo(f, n)
     /\ new' = IF main = NoFile THEN NoFile ELSE new
     /\ IF abort
          THEN UNCHANGED <<phase, keyvars, memory, user, history>>
          ELSE /\ phase' = IF ~r.ok THEN "fatal"
                           ELSE IF NeedsReindex(f, stop) THEN "open" ELSE "run"
               /\ db_key' = asked
               /\ used' = DbKeyUsed(f, stop)
               /\ ekey' = f.key
               /\ ks' = n + 1 + (IF stop = "end" THEN 0 ELSE 1)
               /\ proc' = r.list /\ last_id' = r.last
               /\ buffer' = <<>> /\ fd_size' = n /\ need_sync' = FALSE
               /\ known' = IF NeedsReindex(f, stop) THEN known ELSE asked
               /\ UNCHANGED <<asked, refused>>
               /\ maps' = SubSeq(maps, 1, f.base + n - f.snap)
               /\ fresh' = FALSE
               /\ UNCHANGED <<durable, doomed, crashes, changes>>

(* flush() of buf to fd_, the file main *)
Flushed(buf) ==
  /\ main' = Written(main, buf, ks)
  /\ ks' = ks + Len(buf)
  /\ buffer' = <<>>
  /\ need_sync' = FlushSync(buf)

(* need_reindex(min_size, rate) *)
TooBig(size, p) ==
  size > ReindexMin /\ size \div ReindexRate > Len(LiveEntries(p))

WithinTotal == Len(maps) + crashes + changes <= MaxTotal

(* add_event(): the event goes to the buffer and the processor, a full     *)
(* buffer is written, and a log that is mostly dead is reindexed.          *)
AddEvent(e, m) ==
  /\ phase = "run"
  /\ Len(maps) <= MaxOps /\ WithinTotal
  /\ proc' = Processed(proc, e)
  /\ last_id' = IF e.rewrite THEN last_id ELSE e.id
  /\ IF Len(buffer) + 1 > FlushAt
       THEN Flushed(Append(buffer, e))
       ELSE /\ buffer' = Append(buffer, e)
            /\ UNCHANGED <<main, ks, need_sync>>
  /\ fd_size' = fd_size + 1
  /\ phase' = IF ~Accepts(proc, e) THEN "fatal"
              ELSE IF TooBig(fd_size + 1, proc') THEN "open" ELSE "run"
  /\ maps' = Append(maps, m)
  /\ fresh' = TRUE
  /\ UNCHANGED <<new, db_key, used, ekey, user, durable, doomed, crashes, changes>>

(* the map the clients have built *)
Current == Last(maps)

(* BinlogHelper::add under next_id() *)
Add(v) ==
  /\ last_id < MaxId
  /\ AddEvent([id |-> last_id + 1, val |-> v, rewrite |-> FALSE],
              [j \in DOMAIN Current \cup {last_id + 1} |->
                 IF j = last_id + 1 THEN v ELSE Current[j]])

(* BinlogHelper::rewrite of an event the client owns *)
Rewrite(i, v) ==
  /\ i \in DOMAIN Current
  /\ AddEvent([id |-> i, val |-> v, rewrite |-> TRUE], [Current EXCEPT ![i] = v])

(* BinlogHelper::erase of an event the client owns *)
Erase(i) ==
  /\ i \in DOMAIN Current
  /\ AddEvent([id |-> i, val |-> Empty, rewrite |-> TRUE],
              [j \in DOMAIN Current \ {i} |-> Current[j]])

(* flush(), from a timer of the owner *)
Flush ==
  /\ phase = "run"
  /\ Flushed(buffer)
  /\ UNCHANGED <<new, phase, db_key, used, ekey, proc, fd_size, last_id, user, history>>

(* sync(): the buffer is written and, if anything was written since the    *)
(* last fsync, the file is synced.  Clients that added something since the *)
(* start now rely on everything that is in the log.                        *)
Syncing ==
  LET f == Written(main, buffer, ks)
  IN /\ phase = "run"
     /\ main' = IF FlushSync(buffer) THEN Synced(f) ELSE f
     /\ durable' = IF fresh THEN Len(maps) ELSE durable
     /\ UNCHANGED <<new, user, maps, doomed, fresh, crashes, changes>>

Sync ==
  /\ Syncing
  /\ ks' = ks + Len(buffer)
  /\ buffer' = <<>>
  /\ need_sync' = FALSE
  /\ UNCHANGED <<phase, db_key, used, ekey, proc, fd_size, last_id>>

(* close(need_sync = true) *)
Close ==
  /\ Syncing
  /\ phase' = "down"
  /\ Forget

(* change_key(): the answer comes when the reindex is over. *)
ChangeKey(key) ==
  /\ phase = "run"
  /\ changes < MaxChanges /\ WithinTotal
  /\ phase' = "open"
  /\ db_key' = key
  /\ asked' = key
  /\ changes' = changes + 1
  /\ UNCHANGED <<files, used, ekey, ks, memory, known, refused,
                 maps, durable, doomed, fresh, crashes>>
-----------------------------------------------------------------------------
(* do_reindex(), one action per system call.  Its caller has its answer    *)
(* when it returns, whatever happened.                                     *)

Return ==
  /\ phase' = "run"
  /\ known' = asked
  /\ UNCHANGED <<asked, refused>>

(* opening `.new' fails: an error is logged *)
ReindexOpenFails ==
  /\ phase = "open"
  /\ <<main.key, db_key>> \in OpenFails
  /\ Return
  /\ UNCHANGED <<files, keyvars, memory, history>>

(* `.new' is opened with Truncate; the buffer is dropped, its events are   *)
(* in the processor; the cipher is restarted for db_key_                   *)
ReindexOpen ==
  /\ phase = "open"
  /\ phase' = "write"
  /\ new' = EmptyFile(db_key)
  /\ buffer' = <<>>
  /\ fd_size' = 0
  /\ ekey' = db_key /\ ks' = 1
  /\ used' = (used \/ db_key # NoKey)
  /\ UNCHANGED <<main, db_key, proc, need_sync, last_id, user, history>>

(* the live events are written to `.new' *)
ReindexWrite ==
  LET live   == LiveEntries(proc)
      events == [i \in 1..Len(live) |-> live[i].ev]
  IN /\ phase = "write"
     /\ phase' = "sync"
     /\ new' = [Written(new, events, ks) EXCEPT !.base = Len(maps), !.snap = Len(events)]
     /\ ks' = ks + Len(events)
     /\ fd_size' = fd_size + Len(events)
     /\ need_sync' = TRUE
     /\ UNCHANGED <<main, db_key, used, ekey, proc, buffer, last_id, user, history>>

(* the new file is not synced before the old one is removed *)
ReindexSync_Skipped ==
  /\ phase = "sync"
  /\ phase' = "unlink"
  /\ need_sync' = FALSE
  /\ UNCHANGED <<files, keyvars, proc, buffer, fd_size, last_id, user, history>>

ReindexSync ==
  /\ phase = "sync"
  /\ phase' = "unlink"
  /\ new' = Synced(new)
  /\ need_sync' = FALSE
  /\ UNCHANGED <<main, keyvars, proc, buffer, fd_size, last_id, user, history>>

ReindexUnlink ==
  /\ phase = "unlink"
  /\ phase' = "rename"
  /\ main' = NoFile
  /\ UNCHANGED <<new, keyvars, memory, user, history>>

ReindexRename ==
  /\ phase = "rename"
  /\ Return
  /\ main' = new /\ new' = NoFile
  /\ UNCHANGED <<keyvars, memory, history>>
-----------------------------------------------------------------------------
(* close_and_destroy(), and destroy() of an owner that was interrupted:    *)
(* two files are removed, the log first.                                   *)
DestroyMain ==
  /\ phase = "run" \/ (phase = "down" /\ doomed)
  /\ phase' = "destroy"
  /\ main' = NoFile
  /\ doomed' = TRUE
  /\ Forget
  /\ UNCHANGED <<new, user, maps, durable, fresh, crashes, changes>>

DestroyNew ==
  /\ phase = "destroy"
  /\ phase' = "down"
  /\ new' = NoFile
  /\ maps' = <<[i \in {} |-> 0]>> /\ durable' = 1 /\ doomed' = FALSE
  /\ UNCHANGED <<main, keyvars, memory, user, fresh, crashes, changes>>
-----------------------------------------------------------------------------
(* The process dies; the files stay as they are. *)
Kill ==
  /\ phase # "down" /\ phase # "fatal"
  /\ crashes < MaxCrashes /\ WithinTotal
  /\ crashes' = crashes + 1
  /\ phase' = "down"
  /\ Forget
  /\ UNCHANGED <<files, user, maps, durable, doomed, fresh, changes>>

(* The machine loses power: what was not synced may be lost. *)
PowerLoss ==
  /\ phase # "fatal"
  /\ crashes < MaxCrashes /\ WithinTotal
  /\ crashes' = crashes + 1
  /\ phase' = "down"
  /\ main' \in Survivors(main)
  /\ new' \in Survivors(new)
  /\ Forget
  /\ UNCHANGED <<user, maps, durable, doomed, fresh, changes>>

Next ==
  \/ InitLoad
  \/ \E pair \in ((Keys \cup {NoKey}) \X {NoKey}) \cup {<<asked, known>>} :
       InitRefused(pair[1], pair[2])
  \/ \E v \in Vals : Add(v)
  \/ \E i \in Ids, v \in Vals : Rewrite(i, v)
  \/ \E i \in Ids : Erase(i)
  \/ Flush \/ Sync \/ Close
  \/ \E k \in Keys \cup {NoKey} : ChangeKey(k)
  \/ ReindexOpenFails \/ ReindexOpen \/ ReindexWrite
  \/ ReindexSync \/ ReindexUnlink \/ ReindexRename
  \/ DestroyMain \/ DestroyNew
  \/ Kill \/ PowerLoss

Spec == Init /\ [][Next]_vars
-----------------------------------------------------------------------------
File == [key : Keys \cup {NoKey}, recs : Seq([ev : Event, pos : Nat]), synced : Nat,
         tail : Tails \cup {"none"}, base : Nat, snap : Nat]

(***************************************************************************)
(* Types of the log's state in memory and of the two files on disk.        *)
(***************************************************************************)
TypeOK ==
  /\ main \in File \cup {NoFile} /\ new \in File \cup {NoFile}
  /\ phase \in {"down", "run", "open", "write", "sync", "unlink", "rename", "destroy", "fatal"}
  /\ {db_key, ekey, known, asked} \subseteq Keys \cup {NoKey}
  /\ {used, need_sync, refused, doomed, fresh} \subseteq BOOLEAN
  /\ proc \in Seq(Entry) /\ buffer \in Seq(Event)
  /\ {ks, fd_size, last_id, durable} \subseteq Nat

Abstract == INSTANCE DurableMap

(***************************************************************************)
(* Implementation of DurableMap: through any sequence of updates, flushes, *)
(* reindexes, key changes, kills and power losses, what a restart loads    *)
(* lacks only a suffix of the updates, none that was synced.               *)
(***************************************************************************)
IsDurableMap == Abstract!Spec

(***************************************************************************)
(* Whenever the log is running, file, memory and clients agree: a restart  *)
(* right now, with every buffered event written, would replay exactly the  *)
(* processor's live events, which is what the reuse of aes_ctr_state_      *)
(* after a load and after a reindex relies on; these are the map that the  *)
(* clients have built; and fd_size_ is the size of the file and its        *)
(* buffer, as the LOG_CHECKs of load_binlog and do_reindex have it.        *)
(***************************************************************************)
LogMatches ==
  phase = "run" =>
    LET f == Written(main, buffer, ks)
        r == Replayed(Events(f, Readable(f)))
    IN /\ r.ok /\ LiveMap(r.list) = LiveMap(proc)
       /\ LiveMap(proc) = Current
       /\ fd_size = Len(main.recs) + Len(buffer) /\ main.tail = "none"

(***************************************************************************)
(* The LOG(FATAL) of do_event and the LOG_CHECK of for_each are never      *)
(* reached: no sequence of legal updates, restarts and reindexes makes the *)
(* processor reject an event or lose the order of its identifiers.         *)
(***************************************************************************)
NeverFatal ==
  /\ phase # "fatal"
  /\ \A i \in 1 .. Len(proc) - 1 : proc[i].id < proc[i + 1].id

(***************************************************************************)
(* A key whose change was answered opens the log after every restart, and  *)
(* after a crash during a change the pair of old and new key does.         *)
(***************************************************************************)
KeyAccepted == ~refused

(***************************************************************************)
(* No synced update is lost by a restart.                                  *)
(***************************************************************************)
KeepsSynced == durable <= Len(maps)
=============================================================================
