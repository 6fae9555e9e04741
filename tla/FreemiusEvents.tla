--------------------------- MODULE FreemiusEvents ---------------------------
(***************************************************************************)
(* Freemius webhooks, licence activation and the cached entitlements of a  *)
(* shop (packages/entitlement-freemius/src/webhook.ts, activation.ts,      *)
(* provider.ts, apps/server/src/api/entitlement.ts).  An event is looked   *)
(* up as processed first and recorded as processed last; the row is        *)
(* written in between, and the cache is told after the write returned.     *)
(* What an event does to an account is Entitlements.                       *)
(***************************************************************************)
EXTENDS Naturals

CONSTANTS Event,   \* events of Freemius
          Writer,  \* requests that write the row: deliveries of events, activations
          Reader,  \* requests that ask what the shop may use
          Grace,   \* GRACE_WINDOW_MS in ticks
          Ttl,     \* cacheTtlMs in ticks
          MaxNow,  \* bound on time
          MaxWrites,  \* bound on writes of the row
          MaxRestarts, \* bound on restarts of the server
          NoEvent

ASSUME FreemiusAssumption ==
  NoEvent \notin Event /\ {Grace, Ttl, MaxNow, MaxWrites, MaxRestarts} \subseteq Nat

VARIABLES
  sent,      \* what Freemius tells with each event; NoEvent: nothing yet
  processed, \* the events recorded as processed
  paid,      \* the row of the shop
  cached,    \* what the process caches for the shop, and after how many writes it was read
  writer,    \* where each writing request is, and for which event; NoEvent: activation or deactivation
  reader,    \* where each reading request is, what it read when, and whether a write was announced since
  now,
  written,   \* history: how often an event wrote the row
  excused,   \* history: events two deliveries of which overlapped, or one of which a crash ended
  writes,    \* history: how often the row was written
  lastWrite, \* history: when the row was written last
  restarts

freemiusVars == <<sent, processed, paid, cached, writer, reader, now, written, excused, writes,
                  lastWrite, restarts>>

Type == {"created", "expired", "refund", "other"}
State == {"FREE", "PRO_ACTIVE", "PRO_GRACE", "PRO_EXPIRED", "SUSPENDED"}
Time == 0 .. MaxNow + Grace
Message == [type : Type, shop : BOOLEAN]   \* whether it is for a shop that is known: account events are not
PaidRow == [state : State, until : {{}} \cup {{t} : t \in Time}]
Writing == [at : {"idle", "looked", "resolved", "written", "told"}, event : Event \cup {NoEvent},
            row : PaidRow]
Reading == [at : {"idle", "asked", "read"}, since : 0 .. now, row : PaidRow, of : 0 .. writes,
            raced : BOOLEAN]
Cached == [state : State \cup {"none"}, until : {{}} \cup {{t} : t \in Time},
           expires : 0 .. now + Ttl, of : 0 .. writes, raced : BOOLEAN]
AtRest == [at |-> "idle", event |-> NoEvent, row |-> [state |-> "FREE", until |-> {}]]
NotReading == [at |-> "idle", since |-> 0, row |-> [state |-> "FREE", until |-> {}], of |-> 0, raced |-> FALSE]
NoCache == [state |-> "none", until |-> {}, expires |-> 0, of |-> 0, raced |-> FALSE]

FreemiusTypeOK ==
  /\ sent \in [Event -> Message \cup {NoEvent}] /\ processed \subseteq Event
  /\ paid \in PaidRow /\ cached \in Cached
  /\ writer \in [Writer -> Writing] /\ reader \in [Reader -> Reading]
  /\ now \in 0 .. MaxNow /\ written \in [Event -> Nat] /\ excused \subseteq Event
  /\ writes \in Nat /\ lastWrite \in 0 .. now /\ restarts \in 0 .. MaxRestarts

FreemiusInit ==
  /\ sent = [e \in Event |-> NoEvent] /\ processed = {}
  /\ paid = [state |-> "FREE", until |-> {}] /\ cached = NoCache
  /\ writer = [w \in Writer |-> AtRest] /\ reader = [r \in Reader |-> NotReading]
  /\ now = 0 /\ written = [e \in Event |-> 0] /\ excused = {} /\ writes = 0 /\ lastWrite = 0
  /\ restarts = 0

-----------------------------------------------------------------------------
(* What an event means *)

\* PRO_ACTIVE stands for each active tier: which one the plan decides.
MapEventToState(m) ==
  CASE m.type = "created" -> "PRO_ACTIVE"
    [] m.type = "expired" -> "PRO_EXPIRED"
    [] m.type = "refund" -> "SUSPENDED"
    [] m.type = "other" -> "none"

\* A licence that ended counts as in grace until the window is over.
EffectiveState(row, time) ==
  LET inGrace == \E t \in row.until : t >= time IN
  IF row.state \in {"PRO_EXPIRED", "PRO_GRACE"} /\ inGrace THEN "PRO_GRACE"
  ELSE IF row.state = "PRO_GRACE" THEN "PRO_EXPIRED" ELSE row.state

GraceFor(state) == IF state = "PRO_EXPIRED" THEN {now + Grace} ELSE {}

-----------------------------------------------------------------------------
(* Deliveries *)

\* Freemius sends an event; the same event may be delivered again until it is acknowledged.
SendEvent(e) ==
  /\ sent[e] = NoEvent
  /\ \E m \in Message : sent' = [sent EXCEPT ![e] = m]
  /\ UNCHANGED <<processed, paid, cached, writer, reader, now, written, excused, writes, lastWrite, restarts>>

Rest == UNCHANGED <<sent, cached, reader, now, restarts>>
NoWrite == UNCHANGED <<paid, written, writes, lastWrite>>

Delivering(e) == {w \in Writer : writer[w].at # "idle" /\ writer[w].event = e}

\* kv.get: an event that is recorded is answered as a duplicate.
LookUp(w, e) ==
  /\ sent[e] # NoEvent /\ writer[w].at = "idle" /\ e \notin processed
  /\ writer' = [writer EXCEPT ![w] = [AtRest EXCEPT !.at = "looked", !.event = e]]
  /\ excused' = IF Delivering(e) = {} THEN excused ELSE excused \cup {e}
  /\ UNCHANGED processed /\ NoWrite /\ Rest

\* Fault: an event for nobody is not recorded.
ResolveForgets(w) ==
  /\ writer[w].at = "looked"
  /\ LET m == sent[writer[w].event]  state == MapEventToState(m) IN
     IF state = "none" \/ ~m.shop
     THEN writer' = [writer EXCEPT ![w] = AtRest]
     ELSE writer' = [writer EXCEPT ![w].at = "resolved", ![w].row = [state |-> state, until |-> GraceFor(state)]]
  /\ UNCHANGED <<processed, excused>> /\ NoWrite /\ Rest
\* An event that means nothing, that an account takes, or whose shop is not known, is recorded at once.
Resolve(w) ==
  /\ writer[w].at = "looked"
  /\ LET m == sent[writer[w].event]  state == MapEventToState(m) IN
     IF state = "none" \/ ~m.shop
     THEN writer' = [writer EXCEPT ![w].at = "told"]
     ELSE writer' = [writer EXCEPT ![w].at = "resolved", ![w].row = [state |-> state, until |-> GraceFor(state)]]
  /\ UNCHANGED <<processed, excused>> /\ NoWrite /\ Rest

\* activateKey after Freemius confirmed the key; deactivate.
Activate(w) ==
  /\ writer[w].at = "idle" /\ writes < MaxWrites
  /\ \E s \in {"PRO_ACTIVE", "FREE"} :
       writer' = [writer EXCEPT ![w] = [AtRest EXCEPT !.at = "resolved", !.row.state = s]]
  /\ UNCHANGED <<processed, excused>> /\ NoWrite /\ Rest

\* EntitlementRepo.upsert.
WriteRow(w) ==
  /\ writer[w].at = "resolved"
  /\ paid' = writer[w].row
  /\ writer' = [writer EXCEPT ![w].at = "written"]
  /\ written' = [e \in Event |-> IF e = writer[w].event THEN written[e] + 1 ELSE written[e]]
  /\ writes' = writes + 1 /\ lastWrite' = now
  /\ UNCHANGED <<processed, excused>> /\ Rest

\* The upsert returned; the cached entry is dropped.
DropEntry(w) ==
  /\ writer[w].at = "written"
  /\ cached' = NoCache
  /\ reader' = [r \in Reader |-> [reader[r] EXCEPT !.raced = reader[r].at = "read"]]
  /\ writer' = [writer EXCEPT ![w] = IF writer[w].event = NoEvent THEN AtRest ELSE [@ EXCEPT !.at = "told"]]
  /\ UNCHANGED <<processed, excused, sent, now, restarts>> /\ NoWrite

Record(w) ==
  /\ writer[w].at = "told"
  /\ processed' = processed \cup {writer[w].event}
  /\ writer' = [writer EXCEPT ![w] = AtRest]
  /\ UNCHANGED excused /\ NoWrite /\ Rest

-----------------------------------------------------------------------------
(* getState *)

Still == UNCHANGED <<sent, processed, paid, writer, written, excused, writes, lastWrite, now, restarts>>

\* The time is taken, and the row asked for, when nothing is cached that still counts.
AskState(r) ==
  /\ reader[r].at = "idle" /\ ~(cached # NoCache /\ cached.expires > now)
  /\ reader' = [reader EXCEPT ![r] = [NotReading EXCEPT !.at = "asked", !.since = now]]
  /\ UNCHANGED cached /\ Still
ReadRow(r) ==
  /\ reader[r].at = "asked"
  /\ reader' = [reader EXCEPT ![r] = [@ EXCEPT !.at = "read", !.row = paid, !.of = writes]]
  /\ UNCHANGED cached /\ Still

Entry(r, time) == [state |-> EffectiveState(reader[r].row, reader[r].since), until |-> reader[r].row.until,
                   expires |-> time + Ttl, of |-> reader[r].of, raced |-> reader[r].raced]
\* Fault: the entry counts from when it is stored.
StoreFromNow(r) ==
  /\ reader[r].at = "read" /\ cached' = Entry(r, now)
  /\ reader' = [reader EXCEPT ![r] = NotReading] /\ Still
\* The entry counts from when the request began.
StoreInCache(r) ==
  /\ reader[r].at = "read" /\ cached' = Entry(r, reader[r].since)
  /\ reader' = [reader EXCEPT ![r] = NotReading] /\ Still

TimePasses ==
  /\ now < MaxNow /\ now' = now + 1
  /\ UNCHANGED <<sent, processed, paid, cached, writer, reader, written, excused, writes, lastWrite, restarts>>

\* A restart loses the requests and the cache.
FreemiusCrash ==
  /\ restarts < MaxRestarts /\ restarts' = restarts + 1
  /\ writer' = [w \in Writer |-> AtRest] /\ reader' = [r \in Reader |-> NotReading]
  /\ cached' = NoCache
  /\ excused' = excused \cup {e \in Event : Delivering(e) # {}}
  /\ UNCHANGED <<sent, processed, paid, now, written, writes, lastWrite>>

Handle(w) == Resolve(w) \/ WriteRow(w) \/ DropEntry(w) \/ Record(w)
FreemiusNext ==
  \/ \E e \in Event : SendEvent(e) \/ \E w \in Writer : LookUp(w, e)
  \/ \E w \in Writer : Activate(w) \/ Handle(w)
  \/ \E r \in Reader : AskState(r) \/ ReadRow(r) \/ StoreInCache(r)
  \/ TimePasses \/ FreemiusCrash

FreemiusSpec == FreemiusInit /\ [][FreemiusNext]_freemiusVars

\* Requests go on, and Freemius delivers what was not acknowledged again.
FreemiusFairness ==
  /\ \A w \in Writer : WF_freemiusVars(Handle(w))
  /\ \A e \in Event : SF_freemiusVars(\E w \in Writer : LookUp(w, e))

-----------------------------------------------------------------------------
(* Properties *)

\* An event writes the row once: a second time only where two of its deliveries overlapped or a
\* restart cut one off before the event was recorded.
AppliedOnce == \A e \in Event : written[e] > 1 => e \in excused

\* A cached answer that is not of the row as it is now has a reason: the write has not been
\* announced yet, or a request had read the row before it was overwritten and stored it after the
\* announcement.
StaleHasAReason ==
  cached # NoCache /\ cached.of < writes => cached.raced \/ \E w \in Writer : writer[w].at = "written"

\* Whatever the reason, the old plan is served for no longer than the life of a cache entry.
OldPlanEndsInTime ==
  cached # NoCache /\ cached.of < writes /\ cached.expires > now => now < lastWrite + Ttl

\* Grace is served for no longer than its window and the life of a cache entry.
GraceEndsInTime ==
  cached.state = "PRO_GRACE" /\ cached.expires > now => \A t \in cached.until : now < t + Ttl

\* Every event that Freemius sent is recorded as processed sooner or later.
EventsAreRecorded == \A e \in Event : (sent[e] # NoEvent) ~> (e \in processed)

\* A Freemius event counts once, and an outdated plan is served only for a reason and no longer
\* than the life of a cache entry (FreemiusWebhookHandler and getState).
FreemiusSafe ==
  /\ FreemiusTypeOK
  /\ AppliedOnce
  /\ StaleHasAReason
  /\ OldPlanEndsInTime
  /\ GraceEndsInTime
=============================================================================
