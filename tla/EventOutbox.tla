----------------------------- MODULE EventOutbox -----------------------------
(***************************************************************************)
(* The event outbox: a directory per event, written by the engine           *)
(* (src/engine/src/event/event_report.cpp: the reporting logic, the         *)
(* persistence worker, the image worker and the recorder's callbacks) and   *)
(* read, delivered and removed by another process                           *)
(* (src/services/framework/upload/event_outbox.py).  The two share nothing  *)
(* but the files, so a step here is one file operation or one critical      *)
(* section.  Either process may be killed at any step and is started again. *)
(*                                                                          *)
(* A definition marked "Mutant" is a plausible bug in the definition that   *)
(* follows it; no behaviour uses it.                                        *)
(***************************************************************************)
EXTENDS Naturals, Sequences, FiniteSets

CONSTANTS
    Events,        \* event ids; make_event_id never repeats one
    NoEvent,
    Keys,          \* merge keys: scope of the logic and event type
    Deliveries,    \* deliveries a report policy may name
    Needs,         \* media each delivery sends
    TargetSets,    \* deliveries that may match an event; none: kept locally
    MaxDisturbances  \* bound: merged triggers, crashes, failed writes and sends
                     \* to repeat, together

Media   == {"image", "video"}
Workers == {"persist"} \cup Media

ASSUME OutboxAssumption ==
    /\ NoEvent \notin Events
    /\ Needs \in [Deliveries -> SUBSET Media]
    /\ TargetSets \subseteq SUBSET Deliveries
    /\ MaxDisturbances \in Nat

VARIABLES
    active,          \* g_active: the event a new trigger of a key merges into
    reporter,        \* report_event, one caller per key
    persist_jobs,    \* g_persist_jobs
    image_jobs,      \* g_image_jobs
    recording,       \* events the recorder still films or encodes
    worker,          \* persistence_worker, image_worker and the recorder
    edit,            \* the read-modify-write in progress under g_file_mtx
    cap,             \* enforce_outbox_cap, one caller under cap_mutex
    files,           \* the entries of each event directory; "dir" is itself
    media,           \* status of each medium in media_state.json
    delivery,        \* status of each delivery in delivery_state.json
    fresh,           \* the last trigger in event.json is in the merge window
    up,              \* EventOutboxForwarder
    engine,          \* how far the engine's shutdown has come
    sends,           \* successful sends so far of each delivery
    faults,          \* crashes and failed writes so far
    disturbances     \* what the bound counts

report_vars == <<active, reporter>>
queues      == <<persist_jobs, image_jobs, recording>>
locks       == <<edit, cap>>
engine_vars == <<report_vars, queues, worker, locks, engine>>
disk        == <<files, media, delivery, fresh>>
forwarder   == <<up, sends>>
counters    == <<faults, disturbances>>
vars        == <<engine_vars, disk, forwarder, counters>>

(***************************************************************************)
(* Values                                                                   *)
(***************************************************************************)
Documents == {"delivery", "media", "event"}
Entries   == {"dir", "tmp", "retry"} \cup Documents \cup Media
MediaStatus    == {"none", "generating", "ready", "failed"}
DeliveryStatus == {"none", "pending", "uploading", "backoff", "retry",
                   "delivered", "failed", "invalid"}
Job == [type : {"create", "merge"}, event : Events]

Idle     == [pc |-> "idle", event |-> NoEvent, part |-> "event", ok |-> TRUE]
Reclaim  == [Idle EXCEPT !.pc = "cap"]
NoReport == [pc |-> "idle", event |-> NoEvent]
NoCap    == [owner |-> "nobody", victims |-> {}, listed |-> {}]
UpIdle   == [pc |-> "scan", event |-> NoEvent, todo |-> {}, left |-> {},
             media |-> [m \in Media |-> "none"], fresh |-> FALSE,
             d |-> NoEvent, out |-> "none", listed |-> {}]

Targets(e)      == {d \in Deliveries : delivery[e][d] # "none"}
HasVideo(e)     == media[e]["video"] # "none"
Visible(e)      == "event" \in files[e]
Whole(e)        == Documents \subseteq files[e]
AllDelivered(e) == Targets(e) # {} /\ \A d \in Targets(e) : delivery[e][d] = "delivered"

Init ==
    /\ active = [k \in Keys |-> NoEvent]
    /\ reporter = [k \in Keys |-> NoReport]
    /\ persist_jobs = <<>>
    /\ image_jobs = <<>>
    /\ recording = {}
    /\ worker = [t \in Workers |-> Idle]
    /\ edit = "nobody"
    /\ cap = NoCap
    /\ files = [e \in Events |-> {}]
    /\ media = [e \in Events |-> [m \in Media |-> "none"]]
    /\ delivery = [e \in Events |-> [d \in Deliveries |-> "none"]]
    /\ fresh = [e \in Events |-> FALSE]
    /\ up = UpIdle
    /\ engine = "running"
    /\ sends = [e \in Events |-> [d \in Deliveries |-> 0]]
    /\ faults = 0
    /\ disturbances = 0

Disturb == disturbances < MaxDisturbances /\ disturbances' = disturbances + 1
Fault   == Disturb /\ faults' = faults + 1
NoFault == UNCHANGED counters

(***************************************************************************)
(* report_event, the logic's side                                           *)
(***************************************************************************)
Unused(e)   == media[e]["image"] = "none"
NeedsOf(ts) == UNION {Needs[d] : d \in ts}

WithoutActive(e) == [k \in Keys |-> IF active[k] = e THEN NoEvent ELSE active[k]]

(* The first critical section under g_mtx: the trigger joins the active     *)
(* event of its key if the merge window, whose clock is not modelled, is    *)
(* still open.                                                              *)
ReportMerge(k) ==
    /\ engine = "running"
    /\ reporter[k].pc = "idle"
    /\ active[k] # NoEvent
    /\ Disturb
    /\ reporter' = [reporter EXCEPT ![k] = [pc |-> "merge", event |-> active[k]]]
    /\ UNCHANGED <<active, queues, worker, locks, engine, disk, forwarder, faults>>

(* The same section for a new event, which takes over the key unless its    *)
(* merge mode is NEVER, and the documents built for it: an image is always  *)
(* asked for and fails at once without a frame, a video if a delivery needs *)
(* one.                                                                     *)
ReportCreate(k, e, ts) ==
    /\ engine = "running"
    /\ reporter[k].pc = "idle"
    /\ Unused(e)
    /\ \/ active' = [active EXCEPT ![k] = e]
       \/ UNCHANGED active
    /\ \E image \in {"generating", "failed"} :
         media' = [media EXCEPT ![e] =
                     [image |-> image,
                      video |-> IF "video" \in NeedsOf(ts) THEN "generating" ELSE "none"]]
    /\ delivery' = [delivery EXCEPT ![e] =
                      [d \in Deliveries |-> IF d \in ts THEN "pending" ELSE "none"]]
    /\ reporter' = [reporter EXCEPT ![k] = [pc |-> "create", event |-> e]]
    /\ UNCHANGED <<queues, worker, locks, engine, files, fresh, forwarder, counters>>

(* The job is queued under g_persist_mtx.                                   *)
ReportPush(k) ==
    LET r == reporter[k] IN
    /\ r.pc \in {"merge", "create"}
    /\ persist_jobs' = Append(persist_jobs, [type |-> r.pc, event |-> r.event])
    /\ reporter' = [reporter EXCEPT ![k] =
                      IF r.pc = "create" /\ media[r.event]["image"] = "failed"
                      THEN [r EXCEPT !.pc = "clear"] ELSE NoReport]
    /\ UNCHANGED <<active, image_jobs, recording, worker, locks, engine, disk, forwarder, counters>>

(* CREATED_MEDIA_FAILED: no trigger may join an event without its picture.  *)
ReportClear(k) ==
    /\ reporter[k].pc = "clear"
    /\ active' = WithoutActive(reporter[k].event)
    /\ reporter' = [reporter EXCEPT ![k] = NoReport]
    /\ UNCHANGED <<queues, worker, locks, engine, disk, forwarder, counters>>

(***************************************************************************)
(* persistence_worker                                                       *)
(***************************************************************************)
Goto(t, pc) == worker' = [worker EXCEPT ![t].pc = pc]
Persist == worker["persist"]

PersistTake ==
    /\ Persist.pc = "idle"
    /\ persist_jobs # <<>>
    /\ LET j == Head(persist_jobs) IN
       worker' = [worker EXCEPT !["persist"] =
                    [pc |-> IF j.type = "merge" THEN "open" ELSE "delivery",
                     event |-> j.event, part |-> "event", ok |-> TRUE]]
    /\ persist_jobs' = Tail(persist_jobs)
    /\ UNCHANGED <<report_vars, image_jobs, recording, locks, engine, disk, forwarder, counters>>

(* The documents are stored one after the other, each by a rename, and      *)
(* event.json, by which the directory is found, comes last.                 *)
(* Mutant: the marker is stored before the media status.                    *)
StoredAfterEarly == [delivery |-> "event", event |-> "media", media |-> "image"]

StoredAfter == [delivery |-> "media", media |-> "event", event |-> "image"]

PersistStore ==
    LET doc == Persist.pc
        e   == Persist.event
    IN
    /\ doc \in Documents
    /\ \/ /\ files' = [files EXCEPT ![e] = @ \cup {"dir", doc}]
          /\ fresh' = [fresh EXCEPT ![e] = doc = "event" /\ HasVideo(e)]
          /\ Goto("persist", StoredAfter[doc])
          /\ NoFault
       \/ /\ Goto("persist", "discard")
          /\ Fault
          /\ UNCHANGED <<files, fresh>>
    /\ UNCHANGED <<report_vars, queues, locks, engine, media, delivery, forwarder>>

(* A failed creation is forgotten: the key first, then the directory, which *)
(* nobody else has seen.                                                    *)
(* Mutant: only the directory is removed, the key keeps the event.          *)
PersistDiscardKeepsKey ==
    /\ Persist.pc = "discard"
    /\ files' = [files EXCEPT ![Persist.event] = {}]
    /\ worker' = [worker EXCEPT !["persist"] = Idle]
    /\ UNCHANGED <<report_vars, queues, locks, engine, media, delivery, fresh, forwarder, counters>>

PersistDiscard ==
    /\ Persist.pc = "discard"
    /\ active' = WithoutActive(Persist.event)
    /\ files' = [files EXCEPT ![Persist.event] = {}]
    /\ worker' = [worker EXCEPT !["persist"] = Idle]
    /\ UNCHANGED <<reporter, queues, locks, engine, media, delivery, fresh, forwarder, counters>>

PersistImage ==
    /\ Persist.pc = "image"
    /\ image_jobs' = IF media[Persist.event]["image"] = "generating"
                     THEN Append(image_jobs, Persist.event) ELSE image_jobs
    /\ Goto("persist", "video")
    /\ UNCHANGED <<report_vars, persist_jobs, recording, locks, engine, disk, forwarder, counters>>

(* event_video_recorder_trigger takes the event or rejects it; a rejected   *)
(* one is recorded as failed.                                               *)
PersistVideo ==
    LET e == Persist.event IN
    /\ Persist.pc = "video"
    /\ \/ /\ media[e]["video"] = "none"
          /\ worker' = [worker EXCEPT !["persist"] = Reclaim]
          /\ UNCHANGED recording
       \/ /\ media[e]["video"] = "generating"
          /\ recording' = recording \cup {e}
          /\ worker' = [worker EXCEPT !["persist"] = Reclaim]
       \/ /\ media[e]["video"] = "generating"
          /\ worker' = [worker EXCEPT !["persist"] =
                          [pc |-> "open", event |-> e, part |-> "video", ok |-> FALSE]]
          /\ UNCHANGED recording
    /\ UNCHANGED <<report_vars, persist_jobs, image_jobs, locks, engine, disk, forwarder, counters>>

(***************************************************************************)
(* image_worker and the recorder: the file of the medium is written before  *)
(* its status.                                                              *)
(***************************************************************************)
MediaTake(m) ==
    /\ worker[m].pc = "idle"
    /\ \E e \in Events :
         /\ \/ /\ m = "image" /\ image_jobs # <<>> /\ e = Head(image_jobs)
               /\ image_jobs' = Tail(image_jobs)
               /\ UNCHANGED recording
            \/ /\ m = "video" /\ e \in recording
               /\ recording' = recording \ {e}
               /\ UNCHANGED image_jobs
         /\ worker' = [worker EXCEPT ![m] = [pc |-> "work", event |-> e, part |-> m, ok |-> TRUE]]
    /\ UNCHANGED <<report_vars, persist_jobs, locks, engine, disk, forwarder, counters>>

MediaWork(m) ==
    LET e == worker[m].event IN
    /\ worker[m].pc = "work"
    /\ \/ /\ "dir" \in files[e]
          /\ files' = [files EXCEPT ![e] = @ \cup {m}]
          /\ Goto(m, "open")
       \/ /\ worker' = [worker EXCEPT ![m].pc = "open", ![m].ok = FALSE]
          /\ UNCHANGED files
    /\ UNCHANGED <<report_vars, queues, locks, engine, media, delivery, fresh, forwarder, counters>>

(***************************************************************************)
(* record_merged_trigger and update_media_state: a read-modify-write under  *)
(* g_file_mtx, which the other process does not take.  OpenDocument reads   *)
(* the document and opens the temporary file, RenameDocument puts it in     *)
(* place; either may fail.  A trigger that cannot be recorded, and a medium *)
(* that failed, end the merging of the event; whether a status was written  *)
(* is not looked at.                                                        *)
(***************************************************************************)
Document(t) == IF worker[t].part = "event" THEN "event" ELSE "media"

Edited(t, done) ==
    LET w == worker[t] IN
    worker' = [worker EXCEPT ![t] =
        IF w.part = "event" THEN IF done THEN Idle ELSE [w EXCEPT !.pc = "clear"]
        ELSE IF w.ok THEN Reclaim ELSE [w EXCEPT !.pc = "clear"]]

(* Mutant: g_file_mtx is not taken.                                         *)
OpenDocumentUnlocked(t) ==
    LET e == worker[t].event IN
    /\ worker[t].pc = "open"
    /\ \/ /\ Document(t) \in files[e]
          /\ files' = [files EXCEPT ![e] = @ \cup {"tmp"}]
          /\ edit' = t
          /\ Goto(t, "rename")
          /\ NoFault
       \/ /\ Document(t) \notin files[e]
          /\ Edited(t, FALSE)
          /\ NoFault
          /\ UNCHANGED <<edit, files>>
       \/ /\ Document(t) \in files[e]
          /\ Edited(t, FALSE)
          /\ Fault
          /\ UNCHANGED <<edit, files>>
    /\ UNCHANGED <<report_vars, queues, cap, engine, media, delivery, fresh, forwarder>>

OpenDocument(t) ==
    LET e == worker[t].event IN
    /\ worker[t].pc = "open"
    /\ edit = "nobody"
    /\ \/ /\ Document(t) \in files[e]
          /\ files' = [files EXCEPT ![e] = @ \cup {"tmp"}]
          /\ edit' = t
          /\ Goto(t, "rename")
          /\ NoFault
       \/ /\ Document(t) \notin files[e]
          /\ Edited(t, FALSE)
          /\ NoFault
          /\ UNCHANGED <<edit, files>>
       \/ /\ Document(t) \in files[e]
          /\ Edited(t, FALSE)
          /\ Fault
          /\ UNCHANGED <<edit, files>>
    /\ UNCHANGED <<report_vars, queues, cap, engine, media, delivery, fresh, forwarder>>

RenameDocument(t) ==
    LET w == worker[t]
        e == w.event
    IN
    /\ w.pc = "rename"
    /\ edit' = "nobody"
    /\ \/ /\ "tmp" \in files[e]
          /\ files' = [files EXCEPT ![e] = (@ \ {"tmp"}) \cup {Document(t)}]
          /\ Edited(t, TRUE)
          /\ IF w.part = "event"
             THEN fresh' = [fresh EXCEPT ![e] = HasVideo(e)] /\ UNCHANGED media
             ELSE /\ media' = [media EXCEPT ![e][w.part] = IF w.ok THEN "ready" ELSE "failed"]
                  /\ UNCHANGED fresh
       \/ /\ "tmp" \notin files[e]
          /\ Edited(t, FALSE)
          /\ UNCHANGED <<files, media, fresh>>
    /\ UNCHANGED <<report_vars, queues, cap, engine, delivery, forwarder, counters>>

ClearActive(t) ==
    LET w == worker[t] IN
    /\ w.pc = "clear"
    /\ active' = WithoutActive(w.event)
    /\ worker' = [worker EXCEPT ![t] = IF w.part = "event" THEN Idle ELSE Reclaim]
    /\ UNCHANGED <<reporter, queues, locks, engine, disk, forwarder, counters>>


NeedRetention(e) == ~AllDelivered(e)

EventHasActiveWork(e) ==
    \/ ~Whole(e)
    \/ \E m \in Media : media[e][m] = "generating"
    \/ NeedRetention(e)

CapScan(t) ==
    /\ worker[t].pc = "cap"
    /\ cap.owner = "nobody"
    /\ \E victims \in SUBSET {e \in Events : Visible(e) /\ ~EventHasActiveWork(e)} :
         IF victims = {}
         THEN worker' = [worker EXCEPT ![t] = Idle] /\ UNCHANGED cap
         ELSE cap' = [NoCap EXCEPT !.owner = t, !.victims = victims] /\ Goto(t, "list")
    /\ UNCHANGED <<report_vars, queues, edit, engine, disk, forwarder, counters>>

CapList(t) ==
    /\ worker[t].pc = "list"
    /\ \E e \in cap.victims :
         /\ cap' = [cap EXCEPT !.victims = @ \ {e}, !.listed = files[e] \ {"dir"}]
         /\ worker' = [worker EXCEPT ![t].pc = "unlink", ![t].event = e]
    /\ UNCHANGED <<report_vars, queues, edit, engine, disk, forwarder, counters>>

CapUnlink(t) ==
    /\ worker[t].pc = "unlink"
    /\ files' = [files EXCEPT ![worker[t].event] = @ \ cap.listed]
    /\ cap' = [cap EXCEPT !.listed = {}]
    /\ Goto(t, "rmdir")
    /\ UNCHANGED <<report_vars, queues, edit, engine, media, delivery, fresh, forwarder, counters>>

Rmdir(e) == files' = [files EXCEPT ![e] = IF @ = {"dir"} THEN {} ELSE @]

CapRmdir(t) ==
    /\ worker[t].pc = "rmdir"
    /\ Rmdir(worker[t].event)
    /\ IF cap.victims = {}
       THEN cap' = NoCap /\ worker' = [worker EXCEPT ![t] = Idle]
       ELSE UNCHANGED cap /\ Goto(t, "list")
    /\ UNCHANGED <<report_vars, queues, edit, engine, media, delivery, fresh, forwarder, counters>>

(***************************************************************************)
(* The end of the program: main has joined the threads that report;         *)
(* event_report_deinit joins the persistence worker, then the image worker, *)
(* each after its queue is empty, and event_video_recorder_deinit cuts the  *)
(* recordings short and joins the recorder.                                 *)
(***************************************************************************)
RequestStop ==
    /\ engine = "running"
    /\ \A k \in Keys : reporter[k].pc = "idle"
    /\ engine' = "persist"
    /\ UNCHANGED <<report_vars, queues, worker, locks, disk, forwarder, counters>>

(* Mutant: the worker leaves without draining its queue.                    *)
JoinPersistUndrained ==
    /\ engine = "persist"
    /\ worker["persist"].pc = "idle"
    /\ engine' = "image"
    /\ UNCHANGED <<report_vars, queues, worker, locks, disk, forwarder, counters>>

JoinPersist ==
    /\ engine = "persist"
    /\ persist_jobs = <<>> /\ worker["persist"].pc = "idle"
    /\ engine' = "image"
    /\ UNCHANGED <<report_vars, queues, worker, locks, disk, forwarder, counters>>

JoinImage ==
    /\ engine = "image"
    /\ image_jobs = <<>> /\ worker["image"].pc = "idle"
    /\ engine' = "video"
    /\ active' = [k \in Keys |-> NoEvent]
    /\ UNCHANGED <<reporter, queues, worker, locks, disk, forwarder, counters>>

JoinVideo ==
    /\ engine = "video"
    /\ recording = {} /\ worker["video"].pc = "idle"
    /\ engine' = "exited"
    /\ UNCHANGED <<report_vars, queues, worker, locks, disk, forwarder, counters>>

(* Killed at any step, and started again by the process manager: only the   *)
(* files are left, and nothing looks for the work that was lost.            *)
EngineCrash ==
    /\ engine # "exited"
    /\ Fault
    /\ active' = [k \in Keys |-> NoEvent]
    /\ reporter' = [k \in Keys |-> NoReport]
    /\ persist_jobs' = <<>>
    /\ image_jobs' = <<>>
    /\ recording' = {}
    /\ worker' = [t \in Workers |-> Idle]
    /\ edit' = "nobody"
    /\ cap' = NoCap
    /\ engine' = "running"
    /\ UNCHANGED <<disk, forwarder>>

(***************************************************************************)
(* EventOutboxForwarder: a round lists the visible events and processes     *)
(* each.  An exception ends the event, not the round.                       *)
(***************************************************************************)
UpStep(pc) == up' = [up EXCEPT !.pc = pc]
UpSkip     == up' = [UpIdle EXCEPT !.pc = "next", !.todo = up.todo]

UpScan ==
    /\ up.pc = "scan"
    /\ \E e \in Events : Visible(e)
    /\ up' = [UpIdle EXCEPT !.pc = "next", !.todo = {e \in Events : Visible(e)}]
    /\ UNCHANGED <<engine_vars, disk, sends, counters>>

(* _read of the three documents; a missing one skips the event.             *)
UpRead ==
    /\ up.pc = "next"
    /\ IF up.todo = {}
       THEN up' = UpIdle
       ELSE \E e \in up.todo :
              up' = IF Whole(e)
                    THEN [up EXCEPT !.pc = IF "retry" \in files[e] THEN "reset" ELSE "each",
                                    !.event = e, !.todo = @ \ {e},
                                    !.left = Targets(e), !.media = media[e], !.fresh = fresh[e]]
                    ELSE [up EXCEPT !.todo = @ \ {e}]
    /\ UNCHANGED <<engine_vars, disk, sends, counters>>

(* _write replaces delivery_state.json; the write can fail.                 *)
Undelivered(e) == {d \in Targets(e) : delivery[e][d] # "delivered"}


Reset(e) == [d \in Deliveries |-> IF d \in Undelivered(e) THEN "pending" ELSE delivery[e][d]]

WriteDelivery(e, states) ==
    /\ "dir" \in files[e]
    /\ files' = [files EXCEPT ![e] = @ \cup {"delivery"}]
    /\ delivery' = [delivery EXCEPT ![e] = states]
    /\ NoFault

WriteFails(e) ==
    /\ IF "dir" \in files[e] THEN Fault ELSE NoFault
    /\ UpSkip
    /\ UNCHANGED <<files, delivery>>

(* _reset_requested_retries: the states are written before the request is   *)
(* removed.                                                                 *)
(* Mutant: the request is removed whether or not the write succeeds.        *)
UpResetForgets ==
    /\ up.pc = "reset"
    /\ \/ WriteDelivery(up.event, Reset(up.event)) /\ UpStep("unrequest")
       \/ /\ files' = [files EXCEPT ![up.event] = @ \ {"retry"}]
          /\ Fault
          /\ UpSkip
          /\ UNCHANGED delivery
    /\ UNCHANGED <<engine_vars, media, fresh, sends>>

UpReset ==
    /\ up.pc = "reset"
    /\ \/ WriteDelivery(up.event, Reset(up.event)) /\ UpStep("unrequest")
       \/ WriteFails(up.event)
    /\ UNCHANGED <<engine_vars, media, fresh, sends>>

UpUnrequest ==
    /\ up.pc = "unrequest"
    /\ files' = [files EXCEPT ![up.event] = @ \ {"retry"}]
    /\ UpStep("each")
    /\ UNCHANGED <<engine_vars, media, delivery, fresh, sends, counters>>

Settled == {"delivered", "invalid", "failed"}

(* Still to wait: for the next attempt, for the merge window of an event    *)
(* with a video, or for a medium; the last two as read at the start.        *)
(* Mutants: the overall status is read, in which a failure hides what is    *)
(* still generated; a failed medium is waited for.                          *)
MediaPendingOverall(d) ==
    /\ \E m \in Needs[d] : up.media[m] = "generating"
    /\ \A m \in Media : up.media[m] # "failed"
MediaPendingUntilReady(d) == \E m \in Needs[d] : up.media[m] # "ready"

MediaPending(d) == \E m \in Needs[d] : up.media[m] = "generating"
MediaFailed(d) ==
    \E m \in Needs[d] :
        \/ up.media[m] = "failed"
        \/ up.media[m] = "ready" /\ m \notin files[up.event]
MediaReady(d) == ~MediaPending(d) /\ ~MediaFailed(d)

MustWait(d) ==
    \/ delivery[up.event][d] = "backoff"
    \/ "video" \in Needs[d] /\ up.fresh

PassedOver(d) == delivery[up.event][d] \in Settled \/ MustWait(d) \/ MediaPending(d)

WriteStatus(d, status, next) ==
    \/ /\ WriteDelivery(up.event, [delivery[up.event] EXCEPT ![d] = status])
       /\ up' = next
    \/ WriteFails(up.event)

Others(d) == [up EXCEPT !.left = @ \ {d}]

UpEach ==
    /\ up.pc = "each"
    /\ \E d \in up.left :
         LET status == delivery[up.event][d] IN
         \/ /\ status \notin Settled      \* apply_contract: unknown revision
            /\ WriteStatus(d, "invalid", Others(d))
         \/ /\ status \notin Settled /\ ~MustWait(d)
            /\ MediaFailed(d)
            /\ WriteStatus(d, "failed", Others(d))
         \/ /\ status \notin Settled /\ ~MustWait(d)
            /\ MediaReady(d)
            /\ WriteStatus(d, "uploading", [Others(d) EXCEPT !.pc = "send", !.d = d])
    /\ UNCHANGED <<engine_vars, media, fresh, sends>>

(* adapter.send: the receiver takes the event, refuses it, or the attempt   *)
(* has to be repeated, after a delay; a missing connection is invalid.      *)
UpSend ==
    /\ up.pc = "send"
    /\ \/ /\ sends' = [sends EXCEPT ![up.event][up.d] = @ + 1]
          /\ up' = [up EXCEPT !.pc = "save", !.out = "delivered"]
          /\ UNCHANGED disturbances
       \/ /\ \E out \in {"failed", "invalid"} : up' = [up EXCEPT !.pc = "save", !.out = out]
          /\ UNCHANGED <<sends, disturbances>>
       \/ /\ Disturb
          /\ up' = [up EXCEPT !.pc = "save", !.out = "backoff"]
          /\ UNCHANGED sends
    /\ UNCHANGED <<engine_vars, disk, faults>>

UpSave ==
    /\ up.pc = "save"
    /\ WriteStatus(up.d, up.out, [up EXCEPT !.pc = "each", !.d = NoEvent, !.out = "none"])
    /\ UNCHANGED <<engine_vars, media, fresh, sends>>

(* All deliveries done: shutil.rmtree, which stops at the first error.      *)
UpDone ==
    /\ up.pc = "each"
    /\ \A d \in up.left : PassedOver(d)
    /\ IF AllDelivered(up.event)
       THEN up' = [up EXCEPT !.pc = "rmtree", !.left = {}, !.listed = files[up.event] \ {"dir"}]
       ELSE UpSkip
    /\ UNCHANGED <<engine_vars, disk, sends, counters>>

UpUnlink ==
    /\ up.pc = "rmtree"
    /\ \E part \in {{f} : f \in Documents} \cup {Entries \ Documents} :
         LET fs == up.listed \cap part IN
         /\ fs # {}
         /\ IF fs \subseteq files[up.event]
            THEN /\ files' = [files EXCEPT ![up.event] = @ \ fs]
                 /\ up' = [up EXCEPT !.listed = @ \ fs]
            ELSE UpSkip /\ UNCHANGED files
    /\ UNCHANGED <<engine_vars, media, delivery, fresh, sends, counters>>

UpRmdir ==
    /\ up.pc = "rmtree"
    /\ up.listed = {}
    /\ Rmdir(up.event)
    /\ UpSkip
    /\ UNCHANGED <<engine_vars, media, delivery, fresh, sends, counters>>

(* Killed or stopped: what was written is read again in the next life.      *)
UpCrash ==
    /\ up.pc # "scan"
    /\ Fault
    /\ up' = UpIdle
    /\ UNCHANGED <<engine_vars, disk, sends>>

(***************************************************************************)
(* The clock and the web console                                            *)
(***************************************************************************)
WindowEnds(e) ==
    /\ fresh[e]
    /\ fresh' = [fresh EXCEPT ![e] = FALSE]
    /\ UNCHANGED <<engine_vars, files, media, delivery, forwarder, counters>>

BackoffEnds(e, d) ==
    /\ delivery[e][d] = "backoff"
    /\ delivery' = [delivery EXCEPT ![e][d] = "retry"]
    /\ UNCHANGED <<engine_vars, files, media, fresh, forwarder, counters>>

(* retry_record: the documents are readable, and a file asks for the retry. *)
RequestRetry(e) ==
    /\ Whole(e)
    /\ files' = [files EXCEPT ![e] = @ \cup {"retry"}]
    /\ UNCHANGED <<engine_vars, media, delivery, fresh, forwarder, counters>>

(***************************************************************************)
Report(k) ==
    \/ ReportMerge(k)
    \/ \E e \in Events, ts \in TargetSets : ReportCreate(k, e, ts)
    \/ ReportPush(k)
    \/ ReportClear(k)

PersistStep == PersistTake \/ PersistStore \/ PersistDiscard \/ PersistImage \/ PersistVideo

WorkerStep(t) ==
    \/ t = "persist" /\ PersistStep
    \/ t \in Media /\ (MediaTake(t) \/ MediaWork(t))
    \/ OpenDocument(t) \/ RenameDocument(t) \/ ClearActive(t)
    \/ CapScan(t) \/ CapList(t) \/ CapUnlink(t) \/ CapRmdir(t)

Shutdown == RequestStop \/ JoinPersist \/ JoinImage \/ JoinVideo

Forward ==
    \/ UpScan \/ UpRead \/ UpReset \/ UpUnrequest \/ UpEach
    \/ UpSend \/ UpSave \/ UpDone \/ UpUnlink \/ UpRmdir

TimePasses == \E e \in Events : WindowEnds(e) \/ \E d \in Deliveries : BackoffEnds(e, d)

Next ==
    \/ \E k \in Keys : Report(k)
    \/ \E t \in Workers : WorkerStep(t)
    \/ Shutdown
    \/ EngineCrash
    \/ Forward
    \/ UpCrash
    \/ TimePasses
    \/ \E e \in Events : RequestRetry(e)

Spec == Init /\ [][Next]_vars

(* The threads of the engine are scheduled, its calls return and time       *)
(* passes: all of that is done some day, so that it need not be fair to     *)
(* each.  The forwarder's loop goes on for ever.  Nobody has to report, to  *)
(* stop the program, to crash or to ask for a retry.                        *)
Fairness ==
    /\ WF_vars((\E t \in Workers : WorkerStep(t)) \/ TimePasses)
    /\ WF_vars(Forward)

FairSpec == Spec /\ Fairness

(***************************************************************************)
(* Properties                                                               *)
(***************************************************************************)
WorkerPC == {"idle", "delivery", "media", "event", "discard", "image", "video",
             "work", "open", "rename", "clear", "cap", "list", "unlink", "rmdir"}
UpPC     == {"scan", "next", "reset", "unrequest", "each", "send", "save", "rmtree"}

(* Every variable has its type; the mutex of the documents and that of the  *)
(* capacity are held by the workers inside them, and by nobody else.        *)
TypeOK ==
    /\ active \in [Keys -> Events \cup {NoEvent}]
    /\ reporter \in [Keys -> [pc : {"idle", "merge", "create", "clear"},
                              event : Events \cup {NoEvent}]]
    /\ persist_jobs \in Seq(Job)
    /\ image_jobs \in Seq(Events)
    /\ recording \subseteq Events
    /\ worker \in [Workers -> [pc : WorkerPC, event : Events \cup {NoEvent},
                               part : {"event"} \cup Media, ok : BOOLEAN]]
    /\ edit \in Workers \cup {"nobody"}
    /\ cap \in [owner : Workers \cup {"nobody"}, victims : SUBSET Events, listed : SUBSET Entries]
    /\ files \in [Events -> SUBSET Entries]
    /\ media \in [Events -> [Media -> MediaStatus]]
    /\ delivery \in [Events -> [Deliveries -> DeliveryStatus]]
    /\ fresh \in [Events -> BOOLEAN]
    /\ up \in [pc : UpPC, event : Events \cup {NoEvent}, todo : SUBSET Events,
               left : SUBSET Deliveries, media : [Media -> MediaStatus], fresh : BOOLEAN,
               d : Deliveries \cup {NoEvent}, out : DeliveryStatus, listed : SUBSET Entries]
    /\ engine \in {"running", "persist", "image", "video", "exited"}
    /\ sends \in [Events -> [Deliveries -> Nat]]
    /\ disturbances \in 0..MaxDisturbances
    /\ faults \in 0..disturbances
    /\ \A t \in Workers :
         /\ worker[t].pc = "rename" <=> edit = t
         /\ worker[t].pc \in {"list", "unlink", "rmdir"} <=> cap.owner = t

(* event.json is stored last and an event goes only after it is delivered,  *)
(* so one that is visible and still owes a delivery, or is kept because it  *)
(* has none, has all its documents, whatever was killed in between.         *)
UndeliveredIsWhole ==
    \A e \in Events : Visible(e) /\ ~AllDelivered(e) => Whole(e)

(* What the comment on event.json says (event_report.cpp, before the        *)
(* documents are built): it marks a directory whose creation is complete.   *)
(* A directory somebody is removing right now is left out, and nothing has  *)
(* crashed or failed.                                                       *)
BeingRemoved(e) ==
    \/ up.pc = "rmtree" /\ up.event = e
    \/ \E t \in Workers : worker[t].pc \in {"unlink", "rmdir"} /\ worker[t].event = e

VisibleIsWhole ==
    faults = 0 => \A e \in Events : Visible(e) /\ ~BeingRemoved(e) => Whole(e)


(* A trigger joins only an event that is or will be stored and has no       *)
(* failed medium, unless the thread that saw the failure is about to say so.*)
Coming(e) ==
    \/ \E k \in Keys : reporter[k].event = e
    \/ \E i \in DOMAIN persist_jobs : persist_jobs[i] = [type |-> "create", event |-> e]
    \/ Persist.event = e /\ Persist.pc \in Documents \cup {"discard"}

ActiveEventCanMerge ==
    \A k \in Keys :
        LET e == active[k] IN
        e # NoEvent =>
            \/ Coming(e)
            \/ \E t \in Workers : worker[t].event = e /\ worker[t].pc = "clear"
            \/ /\ Visible(e) \/ AllDelivered(e)
               /\ \A m \in Media : media[e][m] # "failed"

(* An orderly end of the program, with no write failing before, stores every*)
(* event it accepted and finishes its media: the queues are drained in the  *)
(* order in which they feed each other.                                     *)
ShutdownLosesNothing ==
    engine = "exited" /\ faults = 0 =>
        \A e \in Events : Unused(e) \/ AllDelivered(e) \/
            (Whole(e) /\ \A m \in Media : media[e][m] # "generating")


(* What is sent has its media: ready, and still on the disk.                *)
SentWithItsMedia ==
    [][\A e \in Events, d \in Deliveries :
         sends'[e][d] > sends[e][d] =>
             \A m \in Needs[d] : media[e][m] = "ready" /\ m \in files[e]]_vars

(* A visible event comes to rest: each delivery is done or given up.  The   *)
(* exception is an event whose medium nobody will finish any more, after a  *)
(* crash of the engine or a status that could not be written.               *)
Attended(e, m) ==
    \/ Persist.event = e /\ Persist.pc \in {"image", "video"}
    \/ \E t \in Workers :
         worker[t].event = e /\ worker[t].part = m /\ worker[t].pc \in {"work", "open", "rename"}
    \/ m = "image" /\ \E i \in DOMAIN image_jobs : image_jobs[i] = e
    \/ m = "video" /\ e \in recording

Abandoned(e) ==
    \E d \in Targets(e) : \E m \in Needs[d] :
        media[e][m] = "generating" /\ ~Attended(e, m)

EventSettles ==
    \A e \in Events :
        Visible(e) ~> Abandoned(e) \/ \A d \in Targets(e) : delivery[e][d] \in Settled

(* A retry requested for a delivery that was given up is attempted, also    *)
(* when the forwarder dies while it handles the request.                    *)
RetryIsHonoured ==
    \A e \in Events, d \in Deliveries :
        ("retry" \in files[e] /\ delivery[e][d] \in {"failed", "invalid"})
            ~> delivery[e][d] \notin {"failed", "invalid"}
=============================================================================
