------------------------------- MODULE LinkClient -------------------------------
(* The two sequential clients of the player's Link: Client over TCP (fiio_link.py) and   *)
(* WSClient over the bridge (fiio_ws.py).  The player's frames arrive in pieces; a query  *)
(* is matched with its reply by tag alone, among notifications that may have its tag.      *)
EXTENDS Naturals, Sequences, SequencesExt

CONSTANTS Tasks,      \* coroutines that share a WSClient; a Client has one caller
          MaxQueries, \* bound: queries
          MaxNotes,   \* bound: notifications
          Capacity    \* size of WSClient.pending

VARIABLES
  kind,    \* "tcp" or "ws"
  frames,  \* frames the player has sent: tag, and the query it answers, 0 for a notification
  wire,    \* octets on their way: <<frame, position>>
  kernel,  \* octets that have arrived and are not read
  buffer,  \* Frames.buffer
  pending, \* decoded frames that wait: Client.pending, WSClient.pending
  asked,   \* queries on their way to the player
  call,    \* each task: position, its query, frames decoded before it, its result
  lock,    \* WSClient.lock
  end,     \* the connection: "open", closed by the player, or known to be ("error")
  seen,    \* history: frames decoded, in order
  late,    \* history: a query has timed out
  queries  \* history: queries sent

vars == <<kind, frames, wire, kernel, buffer, pending, asked, call, lock, end, seen, late, queries>>
link == <<frames, wire, asked>>

HEADER == 2
Nobody == "nobody"
NoCall == [pc |-> "idle", tag |-> "state", query |-> 0, mark |-> 0, result |-> 0]
Size(tag) == IF tag = "page" THEN HEADER + 1 ELSE HEADER
frame(n, tag) == [k \in 1..Size(tag) |-> <<n, k>>]

Init ==
  /\ kind \in {"tcp", "ws"} /\ frames = <<>> /\ wire = <<>> /\ kernel = <<>> /\ buffer = <<>> /\ pending = <<>>
  /\ asked = <<>> /\ call = [t \in Tasks |-> NoCall] /\ lock = Nobody /\ end = "open"
  /\ seen = <<>> /\ late = FALSE /\ queries = 0

(* ---------------------------------- the player --------------------------------- *)

Emits(tag, of) == frames' = Append(frames, [tag |-> tag, of |-> of]) /\ wire' = wire \o frame(Len(frames) + 1, tag)

Replies == asked # <<>> /\ end = "open" /\ Emits(Head(asked).tag, Head(asked).query) /\ asked' = Tail(asked)
           /\ UNCHANGED <<kind, kernel, buffer, pending, call, lock, end, seen, late, queries>>

\* A state notification has the tag of the reply to 0202.
Notes == end = "open" /\ Len(SelectSeq(frames, LAMBDA f : f.of = 0)) < MaxNotes /\ Emits("state", 0)
         /\ UNCHANGED <<kind, kernel, buffer, pending, asked, call, lock, end, seen, late, queries>>

Arrives == /\ \E n \in 1..Len(wire) : kernel' = kernel \o SubSeq(wire, 1, n) /\ wire' = SubSeq(wire, n + 1, Len(wire))
           /\ UNCHANGED <<kind, frames, buffer, pending, asked, call, lock, end, seen, late, queries>>

Closes == end = "open" /\ end' = "closed"
          /\ UNCHANGED <<kind, frames, wire, kernel, buffer, pending, asked, call, lock, seen, late, queries>>

(* ----------------------------------- decoding ----------------------------------- *)

\* Mutant: an incomplete frame is dropped with what was read.
Bug_feed(data) ==
  LET Decode(acc, octet) ==
        LET rest == Append(acc.rest, octet)
        IN CASE Len(rest) = HEADER /\ rest[1][2] # 1 -> [acc EXCEPT !.bad = TRUE]
             [] Len(rest) >= HEADER /\ Len(rest) = Size(frames[rest[1][1]].tag) ->
                  [acc EXCEPT !.out = Append(@, rest[1][1]), !.rest = <<>>]
             [] OTHER -> [acc EXCEPT !.rest = rest]
  IN [FoldLeft(Decode, [out |-> <<>>, rest |-> buffer, bad |-> FALSE], data) EXCEPT !.rest = <<>>]

\* Complete frames leave the buffer; what is left of one waits for the next piece.  A buffer
\* that does not begin with a header is an error.
feed(data) ==
  LET Decode(acc, octet) ==
        LET rest == Append(acc.rest, octet)
        IN CASE Len(rest) = HEADER /\ rest[1][2] # 1 -> [acc EXCEPT !.bad = TRUE]
             [] Len(rest) >= HEADER /\ Len(rest) = Size(frames[rest[1][1]].tag) ->
                  [acc EXCEPT !.out = Append(@, rest[1][1]), !.rest = <<>>]
             [] OTHER -> [acc EXCEPT !.rest = rest]
  IN FoldLeft(Decode, [out |-> <<>>, rest |-> buffer, bad |-> FALSE], data)

Decoded == LET d == feed(kernel) IN
  /\ kernel # <<>> /\ ~d.bad /\ kernel' = <<>> /\ buffer' = d.rest /\ seen' = seen \o d.out

\* The oldest frames leave a full queue; 0 is the end of the connection.
enqueue(items) == LET all == pending \o items IN
  pending' = IF Len(all) > Capacity THEN SubSeq(all, Len(all) - Capacity + 1, Len(all)) ELSE all

receive_loop ==
  /\ kind = "ws" /\ end # "error"
  /\ \/ Decoded /\ enqueue(feed(kernel).out) /\ UNCHANGED end
     \/ /\ end = "closed" /\ wire = <<>> /\ kernel = <<>> /\ end' = "error" /\ enqueue(<<0>>)
        /\ UNCHANGED <<kernel, buffer, seen>>
  /\ UNCHANGED <<kind, link, call, lock, late, queries>>

(* ----------------------------------- queries ----------------------------------- *)

At(t, pc) == call[t].pc = pc
Drained(t) == call' = [call EXCEPT ![t].pc = "send", ![t].mark = Len(seen)]
Over(t, result) == call' = [call EXCEPT ![t].pc = "idle", ![t].result = result] /\ lock' = IF lock = t THEN Nobody ELSE lock

\* Mutant: coroutines do not take turns.
Bug_request(t) ==
  /\ At(t, "idle") /\ (kind = "ws" \/ \A u \in Tasks : At(u, "idle")) /\ queries < MaxQueries
  /\ lock' = t
  /\ \E tag \in {"page", "state"} : call' = [call EXCEPT ![t] = [NoCall EXCEPT !.pc = "drain", !.tag = tag]]
  /\ UNCHANGED <<kind, link, kernel, buffer, pending, end, seen, late, queries>>

request(t) ==
  /\ At(t, "idle") /\ (kind = "ws" \/ \A u \in Tasks : At(u, "idle")) /\ queries < MaxQueries
  /\ lock = Nobody /\ lock' = t
  /\ \E tag \in {"page", "state"} : call' = [call EXCEPT ![t] = [NoCall EXCEPT !.pc = "drain", !.tag = tag]]
  /\ UNCHANGED <<kind, link, kernel, buffer, pending, end, seen, late, queries>>

\* Mutant: what the last query left over is kept.
Bug_drain_notifications(t) ==
  /\ At(t, "drain")
  /\ \/ kind = "tcp" /\ Decoded /\ UNCHANGED <<pending, call>>
     \/ kernel = <<>> /\ Drained(t) /\ UNCHANGED <<kernel, buffer, seen, pending>>
  /\ UNCHANGED <<kind, link, lock, end, late, queries>>

\* What has arrived before the query is no answer to it.
drain_notifications(t) ==
  /\ At(t, "drain")
  /\ \/ kind = "tcp" /\ Decoded /\ pending' = <<>> /\ UNCHANGED call
     \/ (kind = "ws" \/ kernel = <<>>) /\ pending' = <<>> /\ Drained(t) /\ UNCHANGED <<kernel, buffer, seen>>
  /\ UNCHANGED <<kind, link, lock, end, late, queries>>

send(t) ==
  /\ At(t, "send") /\ end # "error" /\ queries' = queries + 1
  /\ asked' = Append(asked, [tag |-> call[t].tag, query |-> queries'])
  /\ call' = [call EXCEPT ![t].pc = "wait", ![t].query = queries']
  /\ UNCHANGED <<kind, frames, wire, kernel, buffer, pending, lock, end, seen, late>>

\* The first frame with the tag is the reply; those before it are discarded.
Answer(t) ==
  /\ At(t, "wait") /\ (kind = "tcp" \/ end # "error")
  /\ LET Match(n) == n # 0 /\ frames[n].tag = call[t].tag
         hits == {i \in DOMAIN pending : Match(pending[i])}
         first == IF hits = {} THEN 0 ELSE CHOOSE i \in hits : \A j \in hits : i <= j
     IN \/ first # 0 /\ pending' = SubSeq(pending, first + 1, Len(pending)) /\ Over(t, pending[first])
        \/ first = 0 /\ pending # <<>> /\ pending' = <<>> /\ UNCHANGED <<call, lock>>
  /\ UNCHANGED <<kind, link, kernel, buffer, end, seen, late, queries>>

recv(t) ==
  /\ kind = "tcp" /\ At(t, "wait") /\ pending = <<>> /\ Decoded /\ pending' = feed(kernel).out
  /\ UNCHANGED <<kind, link, call, lock, end, late, queries>>

\* No reply in time, or the connection has ended.
Fails(t) ==
  /\ \/ At(t, "wait") /\ late' = TRUE /\ UNCHANGED end
     \/ /\ call[t].pc \in {"drain", "send", "wait"} /\ kernel = <<>> /\ UNCHANGED late
        /\ IF kind = "ws" THEN end = "error" ELSE end # "open" /\ wire = <<>>
        /\ end' = "error"
  /\ Over(t, 0) /\ UNCHANGED <<kind, link, kernel, buffer, pending, seen, queries>>

\* A notification is read without a query: one that waits, else what arrives.
event(t) ==
  /\ At(t, "idle") /\ (kind = "ws" \/ \A u \in Tasks : At(u, "idle")) /\ end # "error"
  /\ \/ pending # <<>> /\ pending' = Tail(pending) /\ UNCHANGED <<kernel, buffer, seen>>
     \/ kind = "tcp" /\ pending = <<>> /\ Decoded /\ pending' = feed(kernel).out
  /\ UNCHANGED <<kind, link, call, lock, end, late, queries>>

Next ==
  \/ Replies \/ Notes \/ Arrives \/ Closes \/ receive_loop
  \/ \E t \in Tasks : request(t) \/ drain_notifications(t) \/ send(t) \/ Answer(t) \/ recv(t) \/ Fails(t) \/ event(t)
Spec == Init /\ [][Next]_vars

(* ---------------------------------- properties --------------------------------- *)

TypeOK ==
  /\ lock \in Tasks \union {Nobody} /\ end \in {"open", "closed", "error"} /\ queries \in 0..MaxQueries
  /\ \A t \in Tasks : call[t].pc \in {"idle", "drain", "send", "wait"} /\ call[t].result \in 0..Len(frames)
  /\ Len(buffer) <= HEADER + 1 /\ (kind = "ws" => Len(pending) <= Capacity)

\* However the stream is cut, and whichever query or event reads it, the frames decoded are
\* those the player sent, in their order, and the rest of the stream is in the buffer.
FramesAreWhole ==
  /\ seen = [i \in DOMAIN seen |-> i]
  /\ buffer \o kernel \o wire = FlattenSeq([i \in 1..Len(frames) - Len(seen) |-> frame(Len(seen) + i, frames[Len(seen) + i].tag)])

\* The reply of a query is later than every frame decoded before it was sent, and until a
\* query has timed out a page is the reply to the query that asked for it, although
\* replies carry no number.
AnswersAreOwn ==
  \A t \in Tasks : LET c == call[t] IN c.result # 0 /\ c.pc = "idle" =>
    /\ c.result > c.mark /\ frames[c.result].tag = c.tag
    /\ ~late /\ c.tag = "page" => frames[c.result].of = c.query
=================================================================================
