--------------------------- MODULE MessageStream ---------------------------
(***************************************************************************)
(* How the output of one message reaches a page: writers commit to SQL and *)
(* then publish to the event bridge (service/message.go), the garbage      *)
(* collector ends abandoned output, and a page follows the bridge with     *)
(* periodic SQL checks (component/message_listener.go, conv_listener.go).  *)
(*                                                                         *)
(* Publishing is best effort: a writer may stop between any two calls, the *)
(* bridge may refuse one, and may lose the stream altogether.  SQL is the  *)
(* only truth a page can rely on.                                          *)
(*                                                                         *)
(* Abstractions.  The content of revision r is 1..r, the updates it is     *)
(* made of; GetMessage reads content, revision and status in one step.  A  *)
(* SQL error closes the page, which opens anew: a page that opens at any   *)
(* time stands for it.  Pings and positions of other messages are left     *)
(* out, and so are deleted messages (nothing outside tests deletes one).   *)
(***************************************************************************)
EXTENDS Naturals, Sequences, FiniteSetsExt

CONSTANTS
  Writer,       \* replicas or sessions that write and publish
  MaxRevision,  \* bound on the message's revision
  MaxLosses     \* bound on how often the bridge loses the stream

ASSUME StreamAssumption == MaxRevision \in Nat \ {0} /\ MaxLosses \in Nat

VARIABLES
  kind,      \* what the message is: operator output, harness output, a question
  listener,  \* which listener serves the page
  row,       \* the message in SQL; revision 0: not created yet
  bridge,    \* the message's stream: a log of events, and whether it is closed
  losses,
  pub,       \* what each writer is doing
  reader,    \* the goroutine that replays the bridge to the page
  page       \* the listener's loop and what its page has been told

vars == <<kind, listener, row, bridge, losses, pub, reader, page>>

Event == [op : {"start", "delta", "end"}, seq : 1..MaxRevision]
Idle == [at |-> "idle", todo |-> <<>>, revision |-> 0, ended |-> FALSE]
NoStream == [exists |-> FALSE, log |-> <<>>, terminal |-> FALSE]
NoReader == [state |-> "off", pos |-> 0, flight |-> <<>>]
NoPage == [at |-> "closed", revision |-> 0, content |-> {}, ended |-> FALSE,
           found |-> "unseen", saw |-> FALSE]

TypeOK ==
  /\ kind \in {"operator", "harness", "human"} /\ listener \in {"message", "conv"}
  /\ row \in [revision : 0..MaxRevision, ended : BOOLEAN, due : BOOLEAN, expired : BOOLEAN]
  /\ bridge \in [exists : BOOLEAN, log : Seq(Event), terminal : BOOLEAN]
  /\ losses \in 0..MaxLosses
  /\ pub \in [Writer -> [at : {"idle", "read", "state", "ensure", "init", "snapshot", "send", "mark"},
                         todo : Seq(Event), revision : 0..MaxRevision, ended : BOOLEAN]]
  /\ reader \in [state : {"off", "on", "done"}, pos : Nat, flight : Seq(Event)]
  /\ page \in [at : {"closed", "discover", "live", "repair", "refresh", "reload", "done"},
               revision : 0..MaxRevision, content : SUBSET (1..MaxRevision), ended : BOOLEAN,
               found : {"unseen", "watching", "gone", "history"}, saw : BOOLEAN]

\* A Run's own stream follows harness output only; a conversation's page follows
\* every message.  A question is a completed message with a due answer.
Init ==
  /\ kind \in {"operator", "harness", "human"}
  /\ listener \in IF kind = "harness" THEN {"message", "conv"} ELSE {"conv"}
  /\ row = [revision |-> 0, ended |-> FALSE, due |-> FALSE, expired |-> FALSE]
  /\ bridge = NoStream
  /\ losses = 0
  /\ pub = [w \in Writer |-> Idle]
  /\ reader = NoReader
  /\ page = NoPage

LastSeq == Max({bridge.log[i].seq : i \in DOMAIN bridge.log})

-----------------------------------------------------------------------------
(* Writers: commit, then publish.                                          *)

listening == <<reader, page>>
fixed == <<kind, listener>>

\* The publication ends: the next committed event is published, or there is none.
NextEvent(u) ==
  LET rest == Tail(u.todo)
  IN  IF u.todo = <<>> \/ rest = <<>> THEN Idle
      ELSE [Idle EXCEPT !.at = "read", !.todo = rest]

\* Speak (open or complete), CreateHuman, or Submit, which also provides the stream
\* (ensureStream); submitting a run again finds the row and only provides the stream.
Create(w) ==
  /\ pub[w].at = "idle"
  /\ IF row.revision = 0
     THEN \E ended \in CASE kind = "operator" -> BOOLEAN [] kind = "harness" -> {FALSE} [] OTHER -> {TRUE} :
            row' = [row EXCEPT !.revision = 1, !.ended = ended, !.due = kind = "human"]
     ELSE kind = "harness" /\ UNCHANGED row
  /\ pub' = IF kind = "harness" THEN [pub EXCEPT ![w].at = "ensure"] ELSE pub
  /\ UNCHANGED <<fixed, bridge, losses, listening>>

\* projectOutput: the events extend the revision, one each, while the message is open.
Commit(w, events) ==
  /\ pub[w].at = "idle" /\ kind # "human"
  /\ row.revision > 0 /\ ~row.ended
  /\ row.revision + Len(events) <= MaxRevision
  /\ row' = [row EXCEPT !.revision = @ + Len(events), !.ended = events[Len(events)].op = "end"]
  /\ pub' = [pub EXCEPT ![w] = [Idle EXCEPT !.at = "read", !.todo = events]]
  /\ UNCHANGED <<fixed, bridge, losses, listening>>

Delta(n) == [op |-> "delta", seq |-> n]
End(n) == [op |-> "end", seq |-> n]

\* EmitMessage, AppendHarnessOutput: one set or append.
Output(w) == row.revision < MaxRevision /\ Commit(w, <<Delta(row.revision + 1)>>)

\* EmitMessage of an End; FinishHarnessRun commits the result (or the error) and the End together.
Finish(w) ==
  LET n == row.revision
  IN  Commit(w, IF kind = "harness" THEN <<Delta(n + 1), End(n + 2)>> ELSE <<End(n + 1)>>)

\* EmitMessage of the last event again: its fingerprint matches, it is published again.
Repeat(w) ==
  /\ pub[w].at = "idle" /\ kind = "operator"
  /\ row.revision > 1 /\ ~row.expired
  /\ pub' = [pub EXCEPT ![w] = [Idle EXCEPT !.at = "read",
               !.todo = <<IF row.ended THEN End(row.revision) ELSE Delta(row.revision)>>]]
  /\ UNCHANGED <<fixed, row, bridge, losses, listening>>

\* ExpireMessages: abandoned output that no run owns ends, and nothing is published.
Expire ==
  /\ kind = "operator"
  /\ row.revision > 0 /\ ~row.ended
  /\ row.revision < MaxRevision
  /\ row' = [row EXCEPT !.revision = @ + 1, !.ended = TRUE, !.expired = TRUE]
  /\ UNCHANGED <<fixed, bridge, losses, pub, listening>>

\* saveHuman: the question is answered, dismissed or timed out.
Settle ==
  /\ row.due
  /\ row.revision < MaxRevision
  /\ row' = [row EXCEPT !.revision = @ + 1, !.due = FALSE]
  /\ UNCHANGED <<fixed, bridge, losses, pub, listening>>

\* GetMessageState after the commit; PublishCommitted takes the event's own place instead.
ReadState(w) ==
  LET e == Head(pub[w].todo)
  IN  /\ pub[w].at = "read"
      /\ pub' = [pub EXCEPT ![w].at = "state",
                   ![w].revision = IF kind = "harness" THEN e.seq ELSE row.revision,
                   ![w].ended = IF kind = "harness" THEN e.op = "end" ELSE row.ended]
      /\ UNCHANGED <<fixed, row, bridge, losses, listening>>

\* Mutant of NeedsSnapshot: only the writer's own lag asks for one.
NeedsSnapshotIfBehind(u) == u.revision # Head(u.todo).seq

\* A delta is sent only onto its predecessor, and only if it is the newest.
NeedsSnapshot(u) == LastSeq + 1 # Head(u.todo).seq \/ u.revision # Head(u.todo).seq

\* After the stream is known to be up to date: close it, if this was the end.
Closing(u) == IF u.ended THEN [u EXCEPT !.at = "mark"] ELSE NextEvent(u)

\* publish: what the stream's state asks for.
BridgeState(w) ==
  LET u == pub[w]
  IN  /\ u.at = "state"
      /\ pub' = [pub EXCEPT ![w] =
           IF ~bridge.exists THEN [u EXCEPT !.at = "ensure"]
           ELSE IF LastSeq >= u.revision THEN Closing(u)
           ELSE [u EXCEPT !.at = IF NeedsSnapshot(u) THEN "snapshot" ELSE "send"]]
      /\ UNCHANGED <<fixed, row, bridge, losses, listening>>

\* Mutant of EnsureStream: the stream starts without the row being read.
EnsureStreamUnread(w) ==
  /\ pub[w].at = "ensure"
  /\ pub' = [pub EXCEPT ![w] = IF bridge.exists THEN Closing(@) ELSE [@ EXCEPT !.at = "init"]]
  /\ UNCHANGED <<fixed, row, bridge, losses, listening>>

\* ensureStream: a missing stream is to start from the row as it is now.
EnsureStream(w) ==
  /\ pub[w].at = "ensure"
  /\ pub' = [pub EXCEPT ![w] = IF bridge.exists THEN Closing(@)
                               ELSE [@ EXCEPT !.at = "init", !.revision = row.revision]]
  /\ UNCHANGED <<fixed, row, bridge, losses, listening>>

\* Initialize: somebody else's stream is as good (ErrConflict).
Initialize(w) ==
  /\ pub[w].at = "init"
  /\ bridge' = IF bridge.exists THEN bridge
               ELSE [NoStream EXCEPT !.exists = TRUE,
                       !.log = <<[op |-> "start", seq |-> pub[w].revision]>>]
  /\ pub' = [pub EXCEPT ![w] = Closing(@)]
  /\ UNCHANGED <<fixed, row, losses, listening>>

\* GetMessage: the whole body replaces the event.
Snapshot(w) ==
  /\ pub[w].at = "snapshot"
  /\ pub' = [pub EXCEPT ![w].at = "send", ![w].ended = row.ended,
               ![w].todo = <<[op |-> "start", seq |-> row.revision]>> \o Tail(@)]
  /\ UNCHANGED <<fixed, row, bridge, losses, listening>>

\* Publish.  What the bridge does with an event older than its last is not
\* ours to know: it is logged here, or refused (GiveUp).
Send(w) ==
  /\ pub[w].at = "send" /\ bridge.exists
  /\ bridge' = [bridge EXCEPT !.log = Append(@, Head(pub[w].todo))]
  /\ pub' = [pub EXCEPT ![w] = Closing(@)]
  /\ UNCHANGED <<fixed, row, losses, listening>>

MarkTerminal(w) ==
  /\ pub[w].at = "mark" /\ bridge.exists
  /\ bridge' = [bridge EXCEPT !.terminal = TRUE]
  /\ pub' = [pub EXCEPT ![w] = NextEvent(@)]
  /\ UNCHANGED <<fixed, row, losses, listening>>

\* A call fails or times out: delivery is deferred, later events are still published.
GiveUp(w) ==
  /\ pub[w].at # "idle"
  /\ pub' = [pub EXCEPT ![w] = NextEvent(@)]
  /\ UNCHANGED <<fixed, row, bridge, losses, listening>>

Crash(w) ==
  /\ pub[w].at # "idle"
  /\ pub' = [pub EXCEPT ![w] = Idle]
  /\ UNCHANGED <<fixed, row, bridge, losses, listening>>

\* The bridge loses the stream (eviction, restart).  A reader starts over, or waits
\* at its old place and so misses the first events of a new stream.
LoseStream ==
  /\ bridge.exists /\ losses < MaxLosses
  /\ bridge' = NoStream
  /\ losses' = losses + 1
  /\ reader' \in {reader, [reader EXCEPT !.pos = 0]}
  /\ UNCHANGED <<fixed, row, pub, page>>

-----------------------------------------------------------------------------
(* The reader replays the stream from its first event.                     *)

publishing == <<row, bridge, losses, pub>>

ReaderNext ==
  /\ reader.state = "on" /\ reader.flight = <<>>
  /\ bridge.exists /\ reader.pos < Len(bridge.log)
  /\ reader' = [reader EXCEPT !.pos = @ + 1, !.flight = <<bridge.log[reader.pos + 1]>>]
  /\ UNCHANGED <<fixed, publishing, page>>

\* The stream is closed or missing, or the bridge fails.
ReaderStops ==
  /\ reader.state = "on"
  /\ reader' = [reader EXCEPT !.state = "done"]
  /\ UNCHANGED <<fixed, publishing, page>>

Started(r) == IF r.state = "off" THEN [r EXCEPT !.state = "on", !.pos = 0] ELSE r

-----------------------------------------------------------------------------
(* What a page is told.                                                    *)

Content(n) == 1..n

\* Start: the body as of a revision.
Shown(p, n) == [p EXCEPT !.revision = n, !.content = Content(n)]

\* A delta changes what the page already shows.
Patched(p, e) == [p EXCEPT !.revision = e.seq, !.content = @ \cup {e.seq},
                           !.ended = @ \/ e.op = "end"]

-----------------------------------------------------------------------------
(* MessageListener.                                                        *)

\* Run: the first body, and the End if there is nothing to follow.
OpenRun ==
  /\ listener = "message" /\ page.at = "closed"
  /\ row.revision > 0
  /\ page' = [Shown(page, row.revision) EXCEPT !.ended = row.ended,
                !.at = IF row.ended THEN "done" ELSE "live"]
  /\ reader' = IF row.ended THEN reader ELSE Started(reader)
  /\ UNCHANGED <<fixed, publishing>>

\* Mutant of HearRun: deltas are passed on without looking at their place.
HearRunAnything ==
  /\ listener = "message" /\ page.at = "live"
  /\ reader.flight # <<>>
  /\ LET e == Head(reader.flight)
     IN  page' = IF e.seq <= page.revision THEN page
                 ELSE IF e.op = "start" THEN Shown(page, e.seq)
                 ELSE [Patched(page, e) EXCEPT !.at = IF e.op = "end" THEN "done" ELSE @]
  /\ reader' = [reader EXCEPT !.flight = <<>>]
  /\ UNCHANGED <<fixed, publishing>>

\* An event from the bridge: a known one is dropped, a gap is repaired from SQL.
HearRun ==
  /\ listener = "message" /\ page.at = "live"
  /\ reader.flight # <<>>
  /\ LET e == Head(reader.flight)
     IN  page' = IF e.seq <= page.revision THEN page
                 ELSE IF e.op = "start" THEN Shown(page, e.seq)
                 ELSE IF e.seq # page.revision + 1 THEN [page EXCEPT !.at = "repair"]
                 ELSE [Patched(page, e) EXCEPT !.at = IF e.op = "end" THEN "done" ELSE @]
  /\ reader' = [reader EXCEPT !.flight = <<>>]
  /\ UNCHANGED <<fixed, publishing>>

\* The reader has stopped.  Its last event may still be in the channel.
BridgeErr ==
  /\ listener = "message" /\ page.at = "live"
  /\ reader.state = "done"
  /\ reader' = [reader EXCEPT !.state = "off"]
  /\ page' = [page EXCEPT !.at = "repair"]
  /\ UNCHANGED <<fixed, publishing>>

TickRun ==
  /\ listener = "message" /\ page.at = "live"
  /\ reader' = Started(reader)
  /\ page' = [page EXCEPT !.at = "repair"]
  /\ UNCHANGED <<fixed, publishing>>

\* Mutant of Repair: an ended message is reported without its last body.
RepairEndsFirst ==
  /\ page.at = "repair"
  /\ page' = IF row.ended THEN [page EXCEPT !.at = "done", !.ended = TRUE]
             ELSE IF row.revision > page.revision THEN [page EXCEPT !.at = "reload", !.saw = FALSE]
             ELSE [page EXCEPT !.at = "live"]
  /\ UNCHANGED <<fixed, publishing, reader>>

\* repair reads the state ...
Repair ==
  /\ page.at = "repair"
  /\ page' = IF row.revision > page.revision
             THEN [page EXCEPT !.at = "reload", !.saw = row.ended]
             ELSE [page EXCEPT !.at = IF row.ended THEN "done" ELSE "live", !.ended = row.ended]
  /\ UNCHANGED <<fixed, publishing, reader>>

\* ... and then the body, by which time the row may have moved on.
ReloadRun ==
  /\ listener = "message" /\ page.at = "reload"
  /\ page' = [Shown(page, row.revision) EXCEPT !.ended = page.saw, !.saw = FALSE,
                !.at = IF page.saw THEN "done" ELSE "live"]
  /\ UNCHANGED <<fixed, publishing, reader>>

-----------------------------------------------------------------------------
(* ConvListener.                                                           *)

Active == ~row.ended \/ row.due

\* start is skipped until a second after the last attempt.
MayStart(r) == {r, Started(r)}

\* observe: the body if it is newer, with the End; the message is watched while active.
Observe(at) ==
  LET newer == row.revision > page.revision
      p == IF newer THEN Shown(page, row.revision) ELSE page
  IN  /\ page' = [p EXCEPT !.at = at, !.saw = row.ended, !.ended = @ \/ (newer /\ row.ended),
                    !.found = IF Active THEN "watching" ELSE "gone"]
      /\ reader' \in IF Active THEN IF row.ended THEN {reader} ELSE MayStart(reader)
                     ELSE {NoReader}

\* LatestMessageID: messages up to here are history unless they are active.
OpenConv ==
  /\ listener = "conv" /\ page.at = "closed"
  /\ page' = [page EXCEPT !.at = "discover",
                !.found = IF row.revision > 0 THEN "history" ELSE "unseen"]
  /\ UNCHANGED <<fixed, publishing, reader>>

\* The first discover.
Bootstrap ==
  /\ page.at = "discover"
  /\ IF row.revision > 0 /\ (page.found = "unseen" \/ Active)
     THEN Observe("live")
     ELSE page' = [page EXCEPT !.at = "live"] /\ UNCHANGED reader
  /\ UNCHANGED <<fixed, publishing>>

\* The discover of a tick; refreshActive follows.
TickConv ==
  /\ listener = "conv" /\ page.at = "live"
  /\ IF row.revision > 0 /\ page.found = "unseen"
     THEN Observe("refresh")
     ELSE page' = [page EXCEPT !.at = "refresh"] /\ UNCHANGED reader
  /\ UNCHANGED <<fixed, publishing>>

\* Mutant of Refresh: a message that has ended is dropped before its revision is compared.
RefreshEndsFirst ==
  /\ page.at = "refresh"
  /\ IF page.found # "watching" THEN page' = [page EXCEPT !.at = "live"] /\ UNCHANGED reader
     ELSE IF ~Active
     THEN page' = [page EXCEPT !.at = "live", !.found = "gone"] /\ reader' = NoReader
     ELSE IF row.revision > page.revision \/ row.ended # page.saw
     THEN page' = [page EXCEPT !.at = "reload"] /\ UNCHANGED reader
     ELSE /\ page' = [page EXCEPT !.at = "live"]
          /\ reader' \in IF row.ended THEN {reader} ELSE MayStart(reader)
  /\ UNCHANGED <<fixed, publishing>>

\* refreshActive: GetMessageStates, and what it says about the watched message.
Refresh ==
  /\ page.at = "refresh"
  /\ IF page.found # "watching" THEN page' = [page EXCEPT !.at = "live"] /\ UNCHANGED reader
     ELSE IF row.revision > page.revision \/ row.ended # page.saw
     THEN page' = [page EXCEPT !.at = "reload"] /\ UNCHANGED reader
     ELSE IF ~Active
     THEN page' = [page EXCEPT !.at = "live", !.found = "gone"] /\ reader' = NoReader
     ELSE /\ page' = [page EXCEPT !.at = "live"]
          /\ reader' \in IF row.ended THEN {reader} ELSE MayStart(reader)
  /\ UNCHANGED <<fixed, publishing>>

\* GetMessage for refreshActive or for an event that asks for the whole row.
ReloadConv ==
  /\ listener = "conv" /\ page.at = "reload"
  /\ Observe("live")
  /\ UNCHANGED <<fixed, publishing>>

\* Mutant of HearConv: events the page already has are passed on again.
HearConvAgain ==
  /\ listener = "conv" /\ page.at = "live"
  /\ reader.flight # <<>>
  /\ LET e == Head(reader.flight)
     IN  page' = IF e.op = "end" THEN [page EXCEPT !.at = "reload"]
                 ELSE IF e.op = "start" THEN Shown(page, e.seq)
                 ELSE IF e.seq # page.revision + 1 THEN page
                 ELSE Patched(page, e)
  /\ reader' = [reader EXCEPT !.flight = <<>>]
  /\ UNCHANGED <<fixed, publishing>>

\* An event from the bridge: an End or a newer body is read from SQL, because only
\* the row has the status; a known event or one beyond a gap is dropped.
HearConv ==
  /\ listener = "conv" /\ page.at = "live"
  /\ reader.flight # <<>>
  /\ LET e == Head(reader.flight)
     IN  page' = IF e.op = "end" \/ (e.op = "start" /\ e.seq > page.revision)
                 THEN [page EXCEPT !.at = "reload"]
                 ELSE IF e.seq # page.revision + 1 THEN page
                 ELSE Patched(page, e)
  /\ reader' = [reader EXCEPT !.flight = <<>>]
  /\ UNCHANGED <<fixed, publishing>>

\* The reader's last word comes after its events.
ReaderDone ==
  /\ listener = "conv" /\ page.at = "live"
  /\ reader.state = "done" /\ reader.flight = <<>>
  /\ reader' = NoReader
  /\ UNCHANGED <<fixed, publishing, page>>

-----------------------------------------------------------------------------

Write == \E w \in Writer :
  \/ Create(w) \/ Output(w) \/ Finish(w) \/ Repeat(w)
  \/ ReadState(w) \/ BridgeState(w) \/ EnsureStream(w) \/ Initialize(w)
  \/ Snapshot(w) \/ Send(w) \/ MarkTerminal(w) \/ GiveUp(w) \/ Crash(w)

ListenRun == OpenRun \/ HearRun \/ BridgeErr \/ TickRun \/ Repair \/ ReloadRun
ListenConv ==
  OpenConv \/ Bootstrap \/ TickConv \/ Refresh \/ ReloadConv \/ HearConv \/ ReaderDone

Next ==
  \/ Write \/ Expire \/ Settle \/ LoseStream
  \/ ReaderNext \/ ReaderStops
  \/ ListenRun \/ ListenConv

Spec == Init /\ [][Next]_vars

\* The listener's loop runs and its ticker fires; nothing is asked of writers,
\* of the bridge or of its reader.
FairSpec ==
  /\ Spec
  /\ WF_vars(OpenRun) /\ WF_vars(TickRun) /\ WF_vars(Repair) /\ WF_vars(ReloadRun)
  /\ WF_vars(OpenConv) /\ WF_vars(Bootstrap) /\ WF_vars(TickConv) /\ WF_vars(Refresh)
  /\ WF_vars(ReloadConv)

-----------------------------------------------------------------------------

\* What a page shows is the body of the revision it believes to have, and SQL
\* has committed it: events that were lost, reordered, repeated or refused
\* never leave a hole in the text a user reads (message_listener.go:140,
\* conv_listener.go:284, message.go:290).  A page that has been told that output
\* ended shows all of it.  (A question is a completed message from the start, and
\* its page is told of the answer later.)
PageFaithful ==
  /\ page.content = Content(page.revision)
  /\ page.revision <= row.revision
  /\ page.ended /\ kind # "human" => row.ended /\ page.revision = row.revision

\* What a page shows never goes back to an older revision, although every new
\* reader replays the stream from its beginning.
PageMovesForward == [][page'.revision >= page.revision]_vars

\* As long as the bridge keeps the stream, every delta in it follows its
\* predecessor or a newer body, whatever publications failed or were overtaken:
\* a page that follows the stream needs no repair.
LogGapFree ==
  losses = 0 =>
    \A i \in DOMAIN bridge.log :
      bridge.log[i].op # "start" =>
        \E j \in 1..(i - 1) : bridge.log[j].seq + 1 >= bridge.log[i].seq

\* Every open page ends up with the last committed revision, and is told of the
\* End, even if nothing at all is published.
PageCatchesUp ==
  <>[](\/ page.found = "history"
       \/ page.revision = row.revision /\ (row.ended => page.ended))
=============================================================================
