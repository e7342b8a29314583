-------------------------- MODULE LiveClientProofs --------------------------
(***************************************************************************)
(* Proofs about LiveClient for any songs, any number of queries and any    *)
(* event budget.                                                           *)
(***************************************************************************)
EXTENDS LiveClient, TLAPS

Running == {"body", "sending", "awaiting", "copy"}

\* What the caller waits for is named exactly while its query is out, and
\* only then does it have a reply.
WaitInv ==
  /\ pc \in {"sending", "awaiting"} <=> waiting # "none"
  /\ pc \in {"sending", "awaiting"} => asked # 0
  /\ reply # None => pc = "awaiting" /\ reply.tag = waiting

\* Queries and replies other than now-playing in a stretch of the way there
\* and back: none, at most one, none but for query n.
Quiet(s) == \A i \in DOMAIN s : s[i].tag # "other"
Lone(s) == \A i, j \in DOMAIN s : s[i].tag = "other" /\ s[j].tag = "other" => i = j
Fresh(s, n) == \A i \in DOMAIN s : s[i].tag = "other" => s[i].query = n

Flying == ~(Quiet(inbox) /\ Quiet(wire) /\ Quiet(chunk))

\* At most one such query is ever on its way or being answered, and until the
\* client is closed it is the one the caller waits for.
FlightInv ==
  /\ Lone(inbox) /\ Lone(wire) /\ Lone(chunk)
  /\ Quiet(inbox) \/ (Quiet(wire) /\ Quiet(chunk))
  /\ Quiet(wire) \/ Quiet(chunk)
  /\ Flying /\ (life = "open" \/ pc \in {"sending", "awaiting"}) =>
       /\ pc = "awaiting" /\ waiting = "other" /\ reply = None
       /\ Fresh(inbox, asked) /\ Fresh(wire, asked) /\ Fresh(chunk, asked)

\* A scan frame that was met is among the events until a check consumes it and
\* ends the operation, or a full queue ends the reader.
ScanInv ==
  /\ active <=> pc # "idle"
  /\ verdict = "clear" => pc \in Running
  /\ pc \in Running /\ heard /\ reading \in {"loop", "recv"} => HoldsScan

IInv == TypeOK /\ WaitInv /\ FlightInv /\ ScanInv /\ RepliesMatch /\ ScanBlocks /\ NothingShownAfterEnd
(* lemmas *)
----------------------------------------------------------------------------
(* Sequences                                                               *)

LEMMA SeqFacts ==
  ASSUME NEW S, NEW s \in Seq(S)
  PROVE  /\ Len(s) \in Nat /\ DOMAIN s = 1 .. Len(s)
         /\ \A i \in 1 .. Len(s) : s[i] \in S
  OBVIOUS

LEMMA AppendFacts ==
  ASSUME NEW S, NEW s \in Seq(S), NEW x \in S
  PROVE  /\ Append(s, x) \in Seq(S) /\ DOMAIN Append(s, x) = 1 .. Len(s) + 1
         /\ Append(s, x)[Len(s) + 1] = x
         /\ \A i \in 1 .. Len(s) : Append(s, x)[i] = s[i]
  OBVIOUS

LEMMA TailFacts ==
  ASSUME NEW S, NEW s \in Seq(S), s # <<>>
  PROVE  /\ Head(s) = s[1] /\ Head(s) \in S /\ Len(s) \in Nat \ {0}
         /\ Tail(s) \in Seq(S) /\ DOMAIN Tail(s) = 1 .. Len(s) - 1
         /\ \A i \in 1 .. Len(s) - 1 : Tail(s)[i] = s[i + 1]
  OBVIOUS

LEMMA SplitFacts ==
  ASSUME NEW S, NEW s \in Seq(S), NEW n \in 1 .. Len(s)
  PROVE  /\ SubSeq(s, 1, n) \in Seq(S) /\ DOMAIN SubSeq(s, 1, n) = 1 .. n
         /\ \A i \in 1 .. n : SubSeq(s, 1, n)[i] = s[i]
         /\ SubSeq(s, n + 1, Len(s)) \in Seq(S)
         /\ DOMAIN SubSeq(s, n + 1, Len(s)) = 1 .. Len(s) - n
         /\ \A i \in 1 .. Len(s) - n : SubSeq(s, n + 1, Len(s))[i] = s[n + i]
  OBVIOUS

\* merge_snapshot returns a payload.
LEMMA MergeType ==
  ASSUME NEW known \in Playback, NEW news \in Playback
  PROVE  merge_snapshot(known, news) \in Playback
BY SongAssumption DEF merge_snapshot, Playback, Blank

\* Types are kept.
LEMMA TypeStep == IInv /\ [Next]_vars => TypeOK'
<1> SUFFICES ASSUME IInv, [Next]_vars PROVE TypeOK'
  OBVIOUS
<1> USE SongAssumption, LimitAssumption
    DEF IInv, TypeOK, WaitInv, deviceVars, requestVars, readerVars, historyVars, Closed,
        ConditionFree, Flag, Shut, Forget, CloseHere, GiveUp, Judge, Note, Reduce, IsReply
<1>a. Blank \in Playback /\ Plays \subseteq Playback
  BY DEF Blank, Playback, Plays
<1>b. \A t \in Tags, l \in Playback, q \in 0 .. MaxQueries : Frame(t, l, q) \in Frames
  BY DEF Frame, Frames
<1>c. 0 \in 0 .. MaxQueries
  OBVIOUS
<1>1. CASE \E now \in Plays : DevicePlays(now)
  <2> PICK now \in Plays : DevicePlays(now)
    BY <1>1
  <2>1. device' \in Playback /\ pushes' \in 0 .. MaxPushes
    BY <1>a DEF DevicePlays
  <2>2. wire' \in Seq(Frames)
    <3> PICK load \in {now, [now EXCEPT !.song = NoSong]} : wire' = Append(wire, Frame("a202", load, 0))
      BY DEF DevicePlays
    <3>1. load \in Playback
      BY <1>a DEF Playback
    <3> QED
      BY <3>1, <1>b, <1>c, AppendFacts DEF Tags
  <2> QED
    BY <2>1, <2>2 DEF DevicePlays
<1>2. CASE DeviceScans
  <2>1. wire' \in Seq(Frames)
    BY <1>2, <1>a, <1>b, <1>c, AppendFacts DEF DeviceScans, Tags
  <2> QED
    BY <1>2, <2>1 DEF DeviceScans
<1>3. CASE DeviceAnswers
  <2> DEFINE Q == [tag : {"a202", "other"}, query : 1 .. MaxQueries]
  <2>1. Head(inbox) \in Q /\ inbox' \in Seq(Q)
    BY <1>3, TailFacts DEF DeviceAnswers
  <2>2. wire' \in Seq(Frames)
    <3>1. CASE UNCHANGED wire
      BY <3>1
    <3>2. ASSUME NEW load \in (IF Head(inbox).tag = "a202" THEN {device, Blank} ELSE {Blank}),
                 wire' = Append(wire, Frame(Head(inbox).tag, load, Head(inbox).query))
          PROVE  wire' \in Seq(Frames)
      BY <3>2, <2>1, <1>a, <1>b, AppendFacts DEF Tags
    <3> QED
      BY <1>3, <3>1, <3>2 DEF DeviceAnswers
  <2> QED
    BY <1>3, <2>1, <2>2 DEF DeviceAnswers
<1>4. CASE OwnerFlags
  BY <1>4 DEF OwnerFlags
<1>5. CASE OwnerShuts
  BY <1>5 DEF OwnerShuts
<1>6. CASE OwnerForgets
  BY <1>6, <1>a DEF OwnerForgets
<1>7. CASE ReaderLooks
  BY <1>7 DEF ReaderLooks
<1>8. CASE Recv
  <2> PICK n \in 1 .. Len(wire) : /\ chunk' = SubSeq(wire, 1, n)
                                 /\ wire' = SubSeq(wire, n + 1, Len(wire))
    BY <1>8 DEF Recv
  <2>1. chunk' \in Seq(Frames) /\ wire' \in Seq(Frames)
    BY SplitFacts
  <2> QED
    BY <1>8, <2>1 DEF Recv
<1>9. CASE Handle
  <2> DEFINE frame == Head(chunk)
  <2>1. frame \in Frames /\ Tail(chunk) \in Seq(Frames)
    BY <1>9, TailFacts DEF Handle
  <2>2. Append(events, frame) \in Seq(Frames)
    BY <2>1, AppendFacts
  <2>3. merge_snapshot(state, frame.load) \in Playback
    BY <2>1, MergeType DEF Frames
  <2>4. <<>> \in Seq(Frames)
    OBVIOUS
  <2>5. reply' \in Frames \cup {None} /\ events' \in Seq(Frames) /\ chunk' \in Seq(Frames)
    BY <1>9, <2>1, <2>2, <2>4 DEF Handle
  <2>6. state' \in Playback /\ reading' \in {"loop", "recv", "flag"}
    BY <1>9, <2>3 DEF Handle
  <2>7. scan_active' \in BOOLEAN /\ heard' \in BOOLEAN /\ verdict' \in {"none", "clear"}
    BY <1>9 DEF Handle
  <2> QED
    BY <1>9, <2>5, <2>6, <2>7 DEF Handle
<1>10. CASE ReaderStops
  <2>1. <<>> \in Seq(Frames)
    OBVIOUS
  <2> QED
    BY <1>10, <2>1 DEF ReaderStops
<1>11. CASE ReaderFlags
  BY <1>11 DEF ReaderFlags
<1>12. CASE ReaderShuts
  BY <1>12 DEF ReaderShuts
<1>13. CASE ReaderForgets
  BY <1>13, <1>a DEF ReaderForgets
<1>14. CASE begin_operation
  <2>1. events' \in Seq(Frames)
    <3>1. Frame("scan_on", Blank, 0) \in Frames
      BY <1>a, <1>b, <1>c DEF Tags
    <3> QED
      BY <1>14, <3>1 DEF begin_operation
  <2> QED
    BY <1>14, <2>1 DEF begin_operation
<1>15. CASE end_operation
  <2>1. <<>> \in Seq(Frames) /\ FALSE \in BOOLEAN
    OBVIOUS
  <2> QED
    BY <1>15, <2>1 DEF end_operation
<1>16. CASE scan_guard
  BY <1>16 DEF scan_guard
<1>17. CASE \E tag \in {"a202", "other"} : Ask(tag)
  BY <1>17 DEF Ask
<1>18. CASE Send
  <2>1. inbox' \in Seq([tag : {"a202", "other"}, query : 1 .. MaxQueries])
    BY <1>18, AppendFacts DEF Send
  <2> QED
    BY <1>18, <2>1 DEF Send
<1>19. CASE SendFails
  BY <1>19, <1>a DEF SendFails
<1>20. CASE Answered
  BY <1>20, <1>a DEF Answered
<1>21. CASE Cut
  BY <1>21 DEF Cut
<1>22. CASE TimesOut
  BY <1>22, <1>a DEF TimesOut
<1>23. CASE Copy
  BY <1>23 DEF Copy
<1>24. CASE Observe
  BY <1>24 DEF Observe
<1>25. CASE UNCHANGED vars
  BY <1>25 DEF vars
<1> QED
  BY <1>1, <1>2, <1>3, <1>4, <1>5, <1>6, <1>7, <1>8, <1>9, <1>10, <1>11, <1>12, <1>13,
     <1>14, <1>15, <1>16, <1>17, <1>18, <1>19, <1>20, <1>21, <1>22, <1>23, <1>24, <1>25
     DEF Next, Device, Owner, Reader, Request, Caller

\* The caller waits for a reply exactly while its query is out.
LEMMA WaitStep == IInv /\ [Next]_vars => WaitInv'
<1> SUFFICES ASSUME IInv, [Next]_vars PROVE WaitInv'
  OBVIOUS
<1> USE SongAssumption, LimitAssumption
    DEF IInv, TypeOK, WaitInv, deviceVars, requestVars, readerVars, historyVars, Closed,
        ConditionFree, Flag, Shut, Forget, CloseHere, GiveUp, Judge, Note, Reduce, IsReply
<1>1. CASE \E now \in Plays : DevicePlays(now)
  BY <1>1 DEF DevicePlays
<1>2. CASE DeviceScans
  BY <1>2 DEF DeviceScans
<1>3. CASE DeviceAnswers
  BY <1>3 DEF DeviceAnswers
<1>4. CASE OwnerFlags
  BY <1>4 DEF OwnerFlags
<1>5. CASE OwnerShuts
  BY <1>5 DEF OwnerShuts
<1>6. CASE OwnerForgets
  BY <1>6 DEF OwnerForgets
<1>7. CASE ReaderLooks
  BY <1>7 DEF ReaderLooks
<1>8. CASE Recv
  BY <1>8 DEF Recv
<1>9. CASE Handle
  <2>1. Head(chunk) \in Frames
    BY <1>9, TailFacts DEF Handle
  <2>2. Head(chunk).tag \in Tags
    BY <2>1 DEF Frames
  <2> QED
    BY <1>9, <2>2 DEF Handle, Tags
<1>10. CASE ReaderStops
  BY <1>10 DEF ReaderStops
<1>11. CASE ReaderFlags
  BY <1>11 DEF ReaderFlags
<1>12. CASE ReaderShuts
  BY <1>12 DEF ReaderShuts
<1>13. CASE ReaderForgets
  BY <1>13 DEF ReaderForgets
<1>14. CASE begin_operation
  BY <1>14 DEF begin_operation
<1>15. CASE end_operation
  BY <1>15 DEF end_operation
<1>16. CASE scan_guard
  BY <1>16 DEF scan_guard
<1>17. CASE \E tag \in {"a202", "other"} : Ask(tag)
  BY <1>17 DEF Ask
<1>18. CASE Send
  BY <1>18 DEF Send
<1>19. CASE SendFails
  BY <1>19 DEF SendFails
<1>20. CASE Answered
  BY <1>20 DEF Answered
<1>21. CASE Cut
  BY <1>21 DEF Cut
<1>22. CASE TimesOut
  BY <1>22 DEF TimesOut
<1>23. CASE Copy
  BY <1>23 DEF Copy
<1>24. CASE Observe
  BY <1>24 DEF Observe
<1>25. CASE UNCHANGED vars
  BY <1>25 DEF vars
<1> QED
  BY <1>1, <1>2, <1>3, <1>4, <1>5, <1>6, <1>7, <1>8, <1>9, <1>10, <1>11, <1>12, <1>13,
     <1>14, <1>15, <1>16, <1>17, <1>18, <1>19, <1>20, <1>21, <1>22, <1>23, <1>24, <1>25
     DEF Next, Device, Owner, Reader, Request, Caller

----------------------------------------------------------------------------
(* Where the queries and the replies are                                   *)

LEMMA AppendOrdinary ==
  ASSUME NEW S, NEW s \in Seq(S), NEW x \in S, NEW n, x.tag # "other"
  PROVE  /\ Quiet(s) => Quiet(Append(s, x))
         /\ Lone(s) => Lone(Append(s, x))
         /\ Fresh(s, n) => Fresh(Append(s, x), n)
BY SeqFacts, AppendFacts DEF Quiet, Lone, Fresh

LEMMA AppendOther ==
  ASSUME NEW S, NEW s \in Seq(S), NEW x \in S, Quiet(s)
  PROVE  Lone(Append(s, x)) /\ Fresh(Append(s, x), x.query)
BY SeqFacts, AppendFacts DEF Quiet, Lone, Fresh

LEMMA TakeFirst ==
  ASSUME NEW S, NEW s \in Seq(S), NEW n, s # <<>>
  PROVE  /\ Quiet(s) => Quiet(Tail(s)) /\ Head(s).tag # "other"
         /\ Lone(s) => Lone(Tail(s)) /\ (Head(s).tag = "other" => Quiet(Tail(s)))
         /\ Fresh(s, n) => /\ Fresh(Tail(s), n)
                           /\ Head(s).tag = "other" => Head(s).query = n
BY SeqFacts, TailFacts DEF Quiet, Lone, Fresh

LEMMA Split ==
  ASSUME NEW S, NEW s \in Seq(S), NEW k \in 1 .. Len(s), NEW n
  PROVE  LET t == SubSeq(s, 1, k)
             u == SubSeq(s, k + 1, Len(s))
         IN /\ Quiet(s) => Quiet(t) /\ Quiet(u)
            /\ Lone(s) => Lone(t) /\ Lone(u) /\ (Quiet(t) \/ Quiet(u))
            /\ Fresh(s, n) => Fresh(t, n) /\ Fresh(u, n)
<1> DEFINE t == SubSeq(s, 1, k)
           u == SubSeq(s, k + 1, Len(s))
<1>1. DOMAIN t = 1 .. k /\ \A i \in 1 .. k : t[i] = s[i]
  BY SplitFacts
<1>2. DOMAIN u = 1 .. Len(s) - k /\ \A i \in 1 .. Len(s) - k : u[i] = s[k + i]
  BY SplitFacts
<1>3. DOMAIN s = 1 .. Len(s) /\ Len(s) \in Nat
  BY SeqFacts
<1> HIDE DEF t, u
<1>4. \A i \in DOMAIN u : i \in Nat /\ k + i \in DOMAIN s /\ k + i > k /\ u[i] = s[k + i]
  BY <1>2, <1>3
<1>5. \A i \in DOMAIN t : i \in Nat /\ i \in DOMAIN s /\ i <= k /\ t[i] = s[i]
  BY <1>1, <1>3
<1>6. Quiet(s) => Quiet(t) /\ Quiet(u)
  BY <1>4, <1>5 DEF Quiet
<1>7. Lone(s) => Lone(t) /\ Lone(u)
  BY <1>4, <1>5 DEF Lone
<1>8. Lone(s) => Quiet(t) \/ Quiet(u)
  BY <1>4, <1>5 DEF Quiet, Lone
<1>9. Fresh(s, n) => Fresh(t, n) /\ Fresh(u, n)
  BY <1>4, <1>5 DEF Fresh
<1> QED
  BY <1>6, <1>7, <1>8, <1>9 DEF t, u

LEMMA EmptyIsQuiet == Quiet(<<>>) /\ Lone(<<>>) /\ \A n : Fresh(<<>>, n)
BY DEF Quiet, Lone, Fresh

\* The one query that is out, and its reply, go along the way once.
LEMMA FlightStep == IInv /\ [Next]_vars => FlightInv'
<1> SUFFICES ASSUME IInv, [Next]_vars PROVE FlightInv'
  OBVIOUS
<1> USE DEF IInv, FlightInv, Flying, RepliesMatch, deviceVars, requestVars, readerVars,
           historyVars, Closed, ConditionFree, Flag, Shut, Forget, CloseHere, GiveUp, Judge
<1>t. TypeOK /\ WaitInv
  OBVIOUS
<1>1. CASE \E now \in Plays : DevicePlays(now)
  <2> PICK now \in Plays : DevicePlays(now)
    BY <1>1
  <2> PICK load \in {now, [now EXCEPT !.song = NoSong]} : wire' = Append(wire, Frame("a202", load, 0))
    BY DEF DevicePlays
  <2>1. Frame("a202", load, 0) \in Frames
    <3>1. load \in Playback
      BY DEF Plays, Playback
    <3>2. 0 \in 0 .. MaxQueries
      BY LimitAssumption
    <3> QED
      BY <3>1, <3>2 DEF Frame, Frames, Tags
  <2>2. Frame("a202", load, 0).tag # "other"
    BY DEF Frame
  <2> QED
    BY <1>t, <2>1, <2>2, AppendOrdinary DEF DevicePlays, TypeOK
<1>2. CASE DeviceScans
  <2> DEFINE f == Frame(IF scanning THEN "scan_off" ELSE "scan_on", Blank, 0)
  <2>1. f \in Frames
    BY SongAssumption, LimitAssumption DEF Playback, Blank, Frame, Frames, Tags
  <2>2. f.tag # "other"
    BY DEF Frame
  <2> HIDE DEF f
  <2>3. wire' = Append(wire, f)
    BY <1>2 DEF DeviceScans, f
  <2> QED
    BY <1>2, <1>t, <2>1, <2>2, <2>3, AppendOrdinary DEF DeviceScans, TypeOK
<1>3. CASE DeviceAnswers
  <2> DEFINE Q == [tag : {"a202", "other"}, query : 1 .. MaxQueries]
             asks == Head(inbox)
  <2>1. inbox \in Seq(Q) /\ inbox # <<>> /\ asks \in Q /\ wire \in Seq(Frames)
    BY <1>3, <1>t, TailFacts DEF DeviceAnswers, TypeOK
  <2>2. /\ Quiet(inbox) => Quiet(Tail(inbox)) /\ asks.tag # "other"
        /\ Lone(Tail(inbox)) /\ (asks.tag = "other" => Quiet(Tail(inbox)))
        /\ Fresh(inbox, asked) => Fresh(Tail(inbox), asked) /\ (asks.tag = "other" => asks.query = asked)
    BY <2>1, TakeFirst
  <2>3. CASE UNCHANGED wire
    BY <1>3, <2>2, <2>3 DEF DeviceAnswers
  <2>4. ASSUME NEW load \in (IF asks.tag = "a202" THEN {device, Blank} ELSE {Blank}),
               wire' = Append(wire, Frame(asks.tag, load, asks.query))
        PROVE  FlightInv'
    <3> DEFINE f == Frame(asks.tag, load, asks.query)
    <3>1. f \in Frames /\ f.tag = asks.tag /\ f.query = asks.query
      BY <1>t, <2>1, SongAssumption, LimitAssumption
         DEF TypeOK, Playback, Blank, Frame, Frames, Tags
    <3> HIDE DEF f
    <3>2. wire' = Append(wire, f)
      BY <2>4 DEF f
    <3>3. CASE asks.tag = "other"
      <4>1. Lone(wire') /\ Fresh(wire', f.query)
        BY <2>1, <2>2, <3>1, <3>2, <3>3, AppendOther
      <4>2. Quiet(wire) /\ Quiet(chunk) /\ Flying
        BY <2>2, <3>3
      <4> QED
        BY <1>3, <2>2, <3>1, <3>3, <4>1, <4>2 DEF DeviceAnswers
    <3>4. CASE asks.tag # "other"
      BY <1>3, <2>1, <2>2, <3>1, <3>2, <3>4, AppendOrdinary DEF DeviceAnswers
    <3> QED
      BY <3>3, <3>4
  <2> QED
    BY <1>3, <2>3, <2>4 DEF DeviceAnswers
<1>4. CASE OwnerFlags
  BY <1>4 DEF OwnerFlags
<1>5. CASE OwnerShuts
  BY <1>5 DEF OwnerShuts
<1>6. CASE OwnerForgets
  BY <1>6 DEF OwnerForgets
<1>7. CASE ReaderLooks
  BY <1>7 DEF ReaderLooks
<1>8. CASE Recv
  <2> PICK k \in 1 .. Len(wire) : /\ chunk' = SubSeq(wire, 1, k)
                                 /\ wire' = SubSeq(wire, k + 1, Len(wire))
    BY <1>8 DEF Recv
  <2>1. /\ Quiet(wire) => Quiet(chunk') /\ Quiet(wire')
        /\ Lone(wire) => Lone(chunk') /\ Lone(wire') /\ (Quiet(chunk') \/ Quiet(wire'))
        /\ Fresh(wire, asked) => Fresh(chunk', asked) /\ Fresh(wire', asked)
    BY <1>t, Split DEF TypeOK
  <2> QED
    BY <1>8, <2>1, EmptyIsQuiet DEF Recv
<1>9. CASE Handle
  <2> DEFINE frame == Head(chunk)
  <2>0. frame \in Frames
    BY <1>9, <1>t, TailFacts DEF Handle, TypeOK
  <2>1. frame \in Frames /\ frame.tag \in Tags
    BY <2>0 DEF Frames
  <2>2. /\ Quiet(chunk) => Quiet(Tail(chunk)) /\ frame.tag # "other"
        /\ Lone(Tail(chunk)) /\ (frame.tag = "other" => Quiet(Tail(chunk)))
        /\ Fresh(chunk, asked) => Fresh(Tail(chunk), asked)
    BY <1>9, <1>t, TakeFirst DEF Handle, TypeOK
  <2>3. /\ Quiet(chunk) => Quiet(chunk')
        /\ Lone(chunk') /\ (frame.tag = "other" => Quiet(chunk'))
        /\ Fresh(chunk, asked) => Fresh(chunk', asked)
    BY <1>9, <2>2, EmptyIsQuiet DEF Handle
  <2>4. reply' = reply \/ (reply' = frame /\ frame.tag = waiting)
    BY <1>9 DEF Handle, IsReply
  <2>5. UNCHANGED <<inbox, wire, life, waiting, asked, pc>>
    BY <1>9 DEF Handle
  <2> HIDE DEF frame
  <2>6. CASE reply' = reply
    BY <2>3, <2>5, <2>6
  <2>7. CASE reply' = frame /\ frame.tag = waiting
    BY <2>2, <2>3, <2>5, <2>7
  <2> QED
    BY <2>4, <2>6, <2>7
<1>10. CASE ReaderStops
  BY <1>10, EmptyIsQuiet DEF ReaderStops
<1>11. CASE ReaderFlags
  BY <1>11 DEF ReaderFlags
<1>12. CASE ReaderShuts
  BY <1>12 DEF ReaderShuts
<1>13. CASE ReaderForgets
  BY <1>13 DEF ReaderForgets
<1>14. CASE begin_operation
  BY <1>14 DEF begin_operation
<1>15. CASE end_operation
  BY <1>15 DEF end_operation
<1>16. CASE scan_guard
  BY <1>16 DEF scan_guard
<1>17. CASE \E tag \in {"a202", "other"} : Ask(tag)
  BY <1>17 DEF Ask
<1>18. CASE Send
  <2> DEFINE Q == [tag : {"a202", "other"}, query : 1 .. MaxQueries]
             q == [tag |-> waiting, query |-> asked]
  <2>1. q \in Q /\ inbox \in Seq(Q)
    BY <1>18, <1>t, LimitAssumption DEF Send, TypeOK, WaitInv
  <2>2. Quiet(inbox) /\ Quiet(wire) /\ Quiet(chunk)
    BY <1>18 DEF Send
  <2>3. reply = None
    BY <1>18, <1>t DEF Send, WaitInv
  <2>4. Lone(inbox') /\ Fresh(inbox', asked) /\ (waiting # "other" => Quiet(inbox'))
    <3>1. inbox' = Append(inbox, q) /\ q.tag = waiting /\ q.query = asked
      BY <1>18 DEF Send
    <3> HIDE DEF q, Q
    <3>2. Lone(inbox') /\ Fresh(inbox', asked)
      BY <2>1, <2>2, <3>1, AppendOther
    <3>3. waiting # "other" => Quiet(inbox')
      BY <2>1, <2>2, <3>1, AppendOrdinary
    <3> QED
      BY <3>2, <3>3
  <2>5. Fresh(wire, asked) /\ Fresh(chunk, asked)
    BY <2>2 DEF Fresh, Quiet
  <2> QED
    BY <1>18, <2>2, <2>3, <2>4, <2>5 DEF Send
<1>19. CASE SendFails
  BY <1>19 DEF SendFails
<1>20. CASE Answered
  BY <1>20 DEF Answered
<1>21. CASE Cut
  BY <1>21 DEF Cut
<1>22. CASE TimesOut
  BY <1>22 DEF TimesOut
<1>23. CASE Copy
  BY <1>23 DEF Copy
<1>24. CASE Observe
  BY <1>24 DEF Observe
<1>25. CASE UNCHANGED vars
  BY <1>25 DEF vars
<1> QED
  BY <1>1, <1>2, <1>3, <1>4, <1>5, <1>6, <1>7, <1>8, <1>9, <1>10, <1>11, <1>12, <1>13,
     <1>14, <1>15, <1>16, <1>17, <1>18, <1>19, <1>20, <1>21, <1>22, <1>23, <1>24, <1>25
     DEF Next, Device, Owner, Reader, Request, Caller

\* The reply of a query other than now-playing is the one it asked for.
LEMMA ReplyStep == IInv /\ [Next]_vars => RepliesMatch'
<1> SUFFICES ASSUME IInv, [Next]_vars PROVE RepliesMatch'
  OBVIOUS
<1> USE DEF IInv, FlightInv, Flying, RepliesMatch, deviceVars, requestVars, readerVars,
           historyVars, Closed, ConditionFree, Flag, Shut, Forget, CloseHere, GiveUp, Judge
<1>t. TypeOK /\ WaitInv
  OBVIOUS
<1>1. CASE \E now \in Plays : DevicePlays(now)
  BY <1>1 DEF DevicePlays
<1>2. CASE DeviceScans
  BY <1>2 DEF DeviceScans
<1>3. CASE DeviceAnswers
  BY <1>3 DEF DeviceAnswers
<1>4. CASE OwnerFlags
  BY <1>4 DEF OwnerFlags
<1>5. CASE OwnerShuts
  BY <1>5 DEF OwnerShuts
<1>6. CASE OwnerForgets
  BY <1>6 DEF OwnerForgets
<1>7. CASE ReaderLooks
  BY <1>7 DEF ReaderLooks
<1>8. CASE Recv
  BY <1>8 DEF Recv
<1>9. CASE Handle
  <2> DEFINE frame == Head(chunk)
  <2>1. frame.tag = "other" => ~Quiet(chunk)
    BY <1>9, <1>t, TakeFirst DEF Handle, TypeOK
  <2>2. Fresh(chunk, asked) => (frame.tag = "other" => frame.query = asked)
    BY <1>9, <1>t, TakeFirst DEF Handle, TypeOK
  <2>3. reply' = reply \/ (reply' = frame /\ frame.tag = waiting)
    BY <1>9 DEF Handle, IsReply
  <2>4. UNCHANGED <<waiting, asked, pc>>
    BY <1>9 DEF Handle
  <2> HIDE DEF frame
  <2> QED
    BY <2>1, <2>2, <2>3, <2>4
<1>10. CASE ReaderStops
  BY <1>10 DEF ReaderStops
<1>11. CASE ReaderFlags
  BY <1>11 DEF ReaderFlags
<1>12. CASE ReaderShuts
  BY <1>12 DEF ReaderShuts
<1>13. CASE ReaderForgets
  BY <1>13 DEF ReaderForgets
<1>14. CASE begin_operation
  BY <1>14 DEF begin_operation
<1>15. CASE end_operation
  BY <1>15 DEF end_operation
<1>16. CASE scan_guard
  BY <1>16 DEF scan_guard
<1>17. CASE \E tag \in {"a202", "other"} : Ask(tag)
  BY <1>17 DEF Ask
<1>18. CASE Send
  BY <1>18, <1>t DEF Send, WaitInv
<1>19. CASE SendFails
  BY <1>19 DEF SendFails
<1>20. CASE Answered
  BY <1>20 DEF Answered
<1>21. CASE Cut
  BY <1>21 DEF Cut
<1>22. CASE TimesOut
  BY <1>22 DEF TimesOut
<1>23. CASE Copy
  BY <1>23 DEF Copy
<1>24. CASE Observe
  BY <1>24 DEF Observe
<1>25. CASE UNCHANGED vars
  BY <1>25 DEF vars
<1> QED
  BY <1>1, <1>2, <1>3, <1>4, <1>5, <1>6, <1>7, <1>8, <1>9, <1>10, <1>11, <1>12, <1>13,
     <1>14, <1>15, <1>16, <1>17, <1>18, <1>19, <1>20, <1>21, <1>22, <1>23, <1>24, <1>25
     DEF Next, Device, Owner, Reader, Request, Caller

\* A scan frame is kept until a check raises, or the reader ends.
LEMMA ScanStep == IInv /\ [Next]_vars => ScanInv'
<1> SUFFICES ASSUME IInv, [Next]_vars PROVE ScanInv'
  OBVIOUS
<1> USE DEF IInv, ScanInv, Running, RepliesMatch, ScanBlocks, NothingShownAfterEnd, deviceVars,
           requestVars, readerVars, historyVars, Closed, ConditionFree, Flag, Shut, Forget,
           CloseHere, GiveUp, Judge, HoldsScan
<1>t. TypeOK /\ WaitInv
  OBVIOUS
<1>1. CASE \E now \in Plays : DevicePlays(now)
  BY <1>1 DEF DevicePlays
<1>2. CASE DeviceScans
  BY <1>2 DEF DeviceScans
<1>3. CASE DeviceAnswers
  BY <1>3 DEF DeviceAnswers
<1>4. CASE OwnerFlags
  BY <1>4 DEF OwnerFlags
<1>5. CASE OwnerShuts
  BY <1>5 DEF OwnerShuts
<1>6. CASE OwnerForgets
  BY <1>6 DEF OwnerForgets
<1>7. CASE ReaderLooks
  BY <1>7 DEF ReaderLooks
<1>8. CASE Recv
  BY <1>8 DEF Recv
<1>9. CASE Handle
  <2> DEFINE frame == Head(chunk)
             full == ~IsReply(frame) /\ active /\ Len(events) >= Budget
  <2>0. frame \in Frames
    BY <1>9, <1>t, TailFacts DEF Handle, TypeOK
  <2>1. frame \in Frames /\ frame.tag \in Tags
    BY <2>0 DEF Frames
  <2>2. frame.tag \in ScanTags => ~IsReply(frame)
    BY <1>t, <2>1 DEF IsReply, ScanTags, TypeOK
  <2>3. events \in Seq(Frames)
    BY <1>t DEF TypeOK
  <2>4. /\ events' = IF IsReply(frame) \/ ~active \/ full THEN events ELSE Append(events, frame)
        /\ reading' \in IF full THEN {"flag"} ELSE {"loop", "recv"}
        /\ heard' = (heard \/ (active /\ frame.tag \in ScanTags))
        /\ verdict' = IF frame.tag \in ScanTags THEN "none" ELSE verdict
        /\ reading = "recv" /\ UNCHANGED <<active, pc>>
    BY <1>9 DEF Handle, Note
  <2> HIDE DEF frame, full
  <2>5. HoldsScan => HoldsScan'
    BY <2>1, <2>3, <2>4, SeqFacts, AppendFacts
  <2>6. active /\ ~full /\ frame.tag \in ScanTags => HoldsScan'
    BY <2>1, <2>2, <2>3, <2>4, SeqFacts, AppendFacts
  <2> HIDE DEF HoldsScan
  <2> QED
    BY <2>4, <2>5, <2>6
<1>10. CASE ReaderStops
  BY <1>10 DEF ReaderStops
<1>11. CASE ReaderFlags
  BY <1>11 DEF ReaderFlags
<1>12. CASE ReaderShuts
  BY <1>12 DEF ReaderShuts
<1>13. CASE ReaderForgets
  BY <1>13 DEF ReaderForgets
<1>14. CASE begin_operation
  <2>1. heard' => HoldsScan'
    BY <1>14 DEF begin_operation, Frame, ScanTags
  <2> HIDE DEF HoldsScan
  <2> QED
    BY <1>14, <1>t, <2>1 DEF begin_operation, TypeOK
<1>15. CASE end_operation
  BY <1>15 DEF end_operation
<1>16. CASE scan_guard
  BY <1>16 DEF scan_guard
<1>17. CASE \E tag \in {"a202", "other"} : Ask(tag)
  BY <1>17 DEF Ask
<1>18. CASE Send
  BY <1>18 DEF Send
<1>19. CASE SendFails
  BY <1>19 DEF SendFails
<1>20. CASE Answered
  BY <1>20 DEF Answered
<1>21. CASE Cut
  BY <1>21 DEF Cut
<1>22. CASE TimesOut
  BY <1>22 DEF TimesOut
<1>23. CASE Copy
  BY <1>23 DEF Copy
<1>24. CASE Observe
  BY <1>24 DEF Observe
<1>25. CASE UNCHANGED vars
  BY <1>25 DEF vars
<1> QED
  BY <1>1, <1>2, <1>3, <1>4, <1>5, <1>6, <1>7, <1>8, <1>9, <1>10, <1>11, <1>12, <1>13,
     <1>14, <1>15, <1>16, <1>17, <1>18, <1>19, <1>20, <1>21, <1>22, <1>23, <1>24, <1>25
     DEF Next, Device, Owner, Reader, Request, Caller

\* A check passes only when no scan frame was met.
LEMMA BlockStep == IInv /\ [Next]_vars => ScanBlocks'
<1> SUFFICES ASSUME IInv, [Next]_vars PROVE ScanBlocks'
  OBVIOUS
<1> USE DEF IInv, ScanInv, Running, RepliesMatch, ScanBlocks, NothingShownAfterEnd, deviceVars,
           requestVars, readerVars, historyVars, Closed, ConditionFree, Flag, Shut, Forget,
           CloseHere, GiveUp, Judge, HoldsScan
<1>t. TypeOK /\ WaitInv
  OBVIOUS
<1>1. CASE \E now \in Plays : DevicePlays(now)
  BY <1>1 DEF DevicePlays
<1>2. CASE DeviceScans
  BY <1>2 DEF DeviceScans
<1>3. CASE DeviceAnswers
  BY <1>3 DEF DeviceAnswers
<1>4. CASE OwnerFlags
  BY <1>4 DEF OwnerFlags
<1>5. CASE OwnerShuts
  BY <1>5 DEF OwnerShuts
<1>6. CASE OwnerForgets
  BY <1>6 DEF OwnerForgets
<1>7. CASE ReaderLooks
  BY <1>7 DEF ReaderLooks
<1>8. CASE Recv
  BY <1>8 DEF Recv
<1>9. CASE Handle
  <2>1. Head(chunk).tag \in ScanTags => verdict' = "none"
    BY <1>9 DEF Handle, Note
  <2>2. Head(chunk).tag \notin ScanTags => UNCHANGED <<verdict, heard>>
    BY <1>9, <1>t DEF Handle, Note, TypeOK
  <2>3. reading = "recv"
    BY <1>9 DEF Handle
  <2> QED
    BY <2>1, <2>2, <2>3
<1>10. CASE ReaderStops
  BY <1>10 DEF ReaderStops
<1>11. CASE ReaderFlags
  BY <1>11 DEF ReaderFlags
<1>12. CASE ReaderShuts
  BY <1>12 DEF ReaderShuts
<1>13. CASE ReaderForgets
  BY <1>13 DEF ReaderForgets
<1>14. CASE begin_operation
  BY <1>14 DEF begin_operation
<1>15. CASE end_operation
  BY <1>15 DEF end_operation
<1>16. CASE scan_guard
  BY <1>16 DEF scan_guard
<1>17. CASE \E tag \in {"a202", "other"} : Ask(tag)
  BY <1>17 DEF Ask
<1>18. CASE Send
  BY <1>18 DEF Send
<1>19. CASE SendFails
  BY <1>19 DEF SendFails
<1>20. CASE Answered
  BY <1>20 DEF Answered
<1>21. CASE Cut
  BY <1>21 DEF Cut
<1>22. CASE TimesOut
  BY <1>22 DEF TimesOut
<1>23. CASE Copy
  BY <1>23 DEF Copy
<1>24. CASE Observe
  BY <1>24 DEF Observe
<1>25. CASE UNCHANGED vars
  BY <1>25 DEF vars
<1> QED
  BY <1>1, <1>2, <1>3, <1>4, <1>5, <1>6, <1>7, <1>8, <1>9, <1>10, <1>11, <1>12, <1>13,
     <1>14, <1>15, <1>16, <1>17, <1>18, <1>19, <1>20, <1>21, <1>22, <1>23, <1>24, <1>25
     DEF Next, Device, Owner, Reader, Request, Caller

\* A reader that has ended has cleared what was shown, and nobody shows more.
LEMMA EndStep == IInv /\ [Next]_vars => NothingShownAfterEnd'
<1> SUFFICES ASSUME IInv, [Next]_vars PROVE NothingShownAfterEnd'
  OBVIOUS
<1> USE DEF IInv, ScanInv, Running, RepliesMatch, ScanBlocks, NothingShownAfterEnd, deviceVars,
           requestVars, readerVars, historyVars, Closed, ConditionFree, Flag, Shut, Forget,
           CloseHere, GiveUp, Judge, HoldsScan
<1>t. TypeOK /\ WaitInv
  OBVIOUS
<1>1. CASE \E now \in Plays : DevicePlays(now)
  BY <1>1 DEF DevicePlays
<1>2. CASE DeviceScans
  BY <1>2 DEF DeviceScans
<1>3. CASE DeviceAnswers
  BY <1>3 DEF DeviceAnswers
<1>4. CASE OwnerFlags
  BY <1>4 DEF OwnerFlags
<1>5. CASE OwnerShuts
  BY <1>5 DEF OwnerShuts
<1>6. CASE OwnerForgets
  BY <1>6 DEF OwnerForgets
<1>7. CASE ReaderLooks
  BY <1>7 DEF ReaderLooks
<1>8. CASE Recv
  BY <1>8 DEF Recv
<1>9. CASE Handle
  BY <1>9, SMTT(20) DEF Handle
<1>10. CASE ReaderStops
  BY <1>10 DEF ReaderStops
<1>11. CASE ReaderFlags
  BY <1>11 DEF ReaderFlags
<1>12. CASE ReaderShuts
  BY <1>12 DEF ReaderShuts
<1>13. CASE ReaderForgets
  BY <1>13 DEF ReaderForgets
<1>14. CASE begin_operation
  BY <1>14 DEF begin_operation
<1>15. CASE end_operation
  BY <1>15 DEF end_operation
<1>16. CASE scan_guard
  BY <1>16 DEF scan_guard
<1>17. CASE \E tag \in {"a202", "other"} : Ask(tag)
  BY <1>17 DEF Ask
<1>18. CASE Send
  BY <1>18 DEF Send
<1>19. CASE SendFails
  BY <1>19 DEF SendFails
<1>20. CASE Answered
  BY <1>20 DEF Answered
<1>21. CASE Cut
  BY <1>21 DEF Cut
<1>22. CASE TimesOut
  BY <1>22 DEF TimesOut
<1>23. CASE Copy
  BY <1>23 DEF Copy
<1>24. CASE Observe
  BY <1>24 DEF Observe
<1>25. CASE UNCHANGED vars
  BY <1>25 DEF vars
<1> QED
  BY <1>1, <1>2, <1>3, <1>4, <1>5, <1>6, <1>7, <1>8, <1>9, <1>10, <1>11, <1>12, <1>13,
     <1>14, <1>15, <1>16, <1>17, <1>18, <1>19, <1>20, <1>21, <1>22, <1>23, <1>24, <1>25
     DEF Next, Device, Owner, Reader, Request, Caller

----------------------------------------------------------------------------
(* Results                                                                 *)

LEMMA InitOK == Init => IInv
<1> SUFFICES ASSUME Init PROVE IInv
  OBVIOUS
<1>1. TypeOK
  <2>1. Plays \subseteq Playback /\ Blank \in Playback
    BY DEF Plays, Playback, Blank
  <2>2. <<>> \in Seq(Frames) /\ <<>> \in Seq([tag : {"a202", "other"}, query : 1 .. MaxQueries])
    OBVIOUS
  <2>3. 0 \in 0 .. MaxPushes /\ 0 \in 0 .. MaxQueries /\ FALSE \in BOOLEAN
    BY LimitAssumption
  <2>4. /\ inbox \in Seq([tag : {"a202", "other"}, query : 1 .. MaxQueries])
        /\ wire \in Seq(Frames) /\ chunk \in Seq(Frames) /\ events \in Seq(Frames)
    BY <2>2 DEF Init
  <2> QED
    BY <2>1, <2>3, <2>4 DEF Init, TypeOK
<1>2. WaitInv /\ ScanInv /\ RepliesMatch /\ ScanBlocks /\ NothingShownAfterEnd
  BY DEF Init, WaitInv, ScanInv, Running, RepliesMatch, ScanBlocks, NothingShownAfterEnd
<1>3. FlightInv
  BY EmptyIsQuiet DEF Init, FlightInv, Flying
<1> QED
  BY <1>1, <1>2, <1>3 DEF IInv

LEMMA StepOK == IInv /\ [Next]_vars => IInv'
BY TypeStep, WaitStep, FlightStep, ScanStep, ReplyStep, BlockStep, EndStep DEF IInv

\* IInv is an inductive invariant of the client, its reader and its owner, for any songs, any
\* number of queries and pushes, and any budget of events (session.py, LiveClient).
THEOREM Invariance == Spec => []IInv
BY InitOK, StepOK, PTL DEF Spec

\* Every variable of the client keeps its type: the wire, the chunk and the event queue hold
\* whole frames, and a merged state is a payload (session.py:74-230).
THEOREM TypeCorrect == Spec => []TypeOK
<1>1. IInv => TypeOK
  BY DEF IInv
<1> QED
  BY <1>1, Invariance, PTL

\* A reply that reaches the caller answers its own query, although replies are matched by tag
\* alone, because a query that was given up retires the connection (session.py:140, 168).
THEOREM Replies == Spec => []RepliesMatch
<1>1. IInv => RepliesMatch
  BY DEF IInv
<1> QED
  BY <1>1, Invariance, PTL

\* A scan that was active when the operation began, or was reported since, is not passed over by
\* a check: its frame is among the events or the reader has ended (session.py:187, events.py).
THEOREM Scans == Spec => []ScanBlocks
<1>1. IInv => ScanBlocks
  BY DEF IInv
<1> QED
  BY <1>1, Invariance, PTL

\* Once the reader has ended nothing is shown any more, whichever threads closed the client in
\* whatever order (session.py:72-84).
THEOREM NothingShown == Spec => []NothingShownAfterEnd
<1>1. IInv => NothingShownAfterEnd
  BY DEF IInv
<1> QED
  BY <1>1, Invariance, PTL
=============================================================================
