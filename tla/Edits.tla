---------------------------------- MODULE Edits ----------------------------------
(* One edit of the player's playlists (playlist_operations.py): create, rename, add a row   *)
(* of the library, remove a row.  The player names a playlist and a row by its position     *)
(* only, answers every HTTP write with 200 whether it did it or not, and other hands edit   *)
(* the same lists between any two requests.  A read of a list is one request here.          *)
EXTENDS SequencesExt, Naturals

CONSTANTS Names,      \* names of playlists
          Songs,      \* what identifies a row: title and artist
          MaxChanges  \* bound: changes by other hands

VARIABLES
  lists,   \* the player: its playlists, in order, each a name and rows
  library, \* the player: the rows of the source
  op,      \* the edit: what was asked, where it is, what it has still to read and has read
  result,  \* its outcome
  wrote,   \* history: what the write met on the player, whether the player did it
  changed, \* history: other hands changed something since the edit's last check began
  count    \* history: their changes

vars == <<lists, library, op, result, wrote, changed, count>>
player == <<lists, library>>

Rows == UNION {[1..n -> Songs] : n \in 0..2}
Unread == <<"unread">>
NoWrite == [made |-> FALSE, done |-> FALSE, name |-> "none", row |-> "none", shown |-> "none"]
NamesOf(l) == [i \in DOMAIN l |-> l[i].name]
Counter(s) == [x \in Range(s) |-> Cardinality({i \in DOMAIN s : s[i] = x})]

\* Each list is read until two reads agree; a third read precedes the write.
Stable(action) ==
  <<"custom", "custom">> \o (IF action \in {"add", "remove"} THEN <<"members", "members">> ELSE <<>>)
  \o (IF action = "add" THEN <<"source", "source">> ELSE <<>>)

\* Mutant: the positions of the playlists are not read again.
Bug_Again(action) ==
  CASE action = "add" -> <<"members", "source">> [] action = "remove" -> <<"members">> [] OTHER -> <<>>

Again(action) ==
  CASE action = "add" -> <<"custom", "members", "source">>
    [] action = "remove" -> <<"custom", "members">>
    [] OTHER -> <<"custom">>

\* What the user was shown counts as read.
Init ==
  /\ \E rows \in Rows : lists = <<[name |-> "x", rows |-> rows], [name |-> "y", rows |-> <<>>]>>
  /\ library \in {r \in Rows : r # <<>>}
  /\ \E action \in {"create", "rename", "add", "remove"}, new \in Names, index \in 1..2, shown \in Rows :
       /\ action # "rename" /\ action # "create" => new = "x"
       /\ action \notin {"add", "remove"} => index = 1 /\ shown = <<>>
       /\ op = [action |-> action, name |-> IF action = "create" THEN new ELSE "x", new |-> new, index |-> index,
                pc |-> "check", todo |-> Stable(action), at |-> 0, sent |-> FALSE,
                seen |-> [custom |-> Unread, members |-> IF action = "remove" THEN shown ELSE Unread,
                          source |-> IF action = "add" THEN shown ELSE Unread], base |-> Unread]
  /\ result = "none" /\ wrote = NoWrite /\ changed = FALSE /\ count = 0

Rests == UNCHANGED <<player, wrote, changed, count>>
Ends(outcome) == result' = outcome /\ op' = [op EXCEPT !.pc = "over", !.todo = <<>>]
Fails == Ends(IF op.sent THEN "uncertain" ELSE "not_sent")

\* A position the player no longer has is answered as an empty list would be.
value(what) ==
  CASE what = "custom" -> NamesOf(lists)
    [] what = "members" -> IF op.at \in DOMAIN lists THEN lists[op.at].rows ELSE <<>>
    [] what = "source" -> library

read ==
  /\ op.pc \in {"check", "last", "readback"} /\ op.todo # <<>>
  /\ LET what == Head(op.todo)  now == value(what) IN
     IF op.seen[what] \notin {Unread, now} THEN Fails
     ELSE op' = [op EXCEPT !.todo = Tail(@), !.seen[what] = now,
                           !.at = IF what = "custom" /\ op.pc = "check" /\ op.action # "create"
                                  THEN SelectInSeq(now, LAMBDA n : n = op.name) ELSE @] /\ UNCHANGED result
  /\ Rests

Named == LET matches == {i \in DOMAIN op.seen.custom : op.seen.custom[i] = op.name}
         IN IF op.action = "create" THEN matches # {} ELSE Cardinality(matches) = 1

\* What the reads must show for the edit to be made.
Makes ==
  CASE op.action = "create" -> ~Named
    [] op.action = "rename" -> Named /\ op.new \notin Range(op.seen.custom)
    [] op.action = "add" -> /\ Named /\ op.index \in DOMAIN op.seen.source
                            /\ op.seen.source[op.index] \notin Range(op.seen.members)
    [] op.action = "remove" -> Named /\ op.index \in DOMAIN op.seen.members

edit ==
  /\ op.pc = "check" /\ op.todo = <<>>
  /\ IF op.action = "rename" /\ op.name = op.new /\ Named THEN Ends("already_satisfied") /\ UNCHANGED changed
     ELSE IF ~Makes THEN Fails /\ UNCHANGED changed
     ELSE op' = [op EXCEPT !.pc = "last", !.todo = Again(op.action)] /\ changed' = FALSE /\ UNCHANGED result
  /\ UNCHANGED <<player, wrote, count>>

\* Mutant: the attempt is noted when the player has answered.
Bug_attempted ==
  /\ op.pc = "last" /\ op.todo = <<>>
  /\ op' = [op EXCEPT !.pc = IF op.action = "add" THEN "destination" ELSE "send"]
  /\ UNCHANGED <<player, result, wrote, changed, count>>

\* The attempt is noted before the first byte.
attempted ==
  /\ op.pc = "last" /\ op.todo = <<>>
  /\ op' = [op EXCEPT !.pc = IF op.action = "add" THEN "destination" ELSE "send", !.sent = TRUE]
  /\ UNCHANGED <<player, result, wrote, changed, count>>

\* add_selection_to_playlist: the destination's name, the row, the destination again.
add_selection_to_playlist ==
  /\ op.pc \in {"destination", "row", "destination again"}
  /\ IF IF op.pc = "row" THEN op.index \in DOMAIN library ELSE op.at \in DOMAIN lists /\ lists[op.at].name = op.name
       THEN op' = [op EXCEPT !.pc = CASE op.pc = "destination" -> "row" [] op.pc = "row" -> "destination again" [] OTHER -> "send"]
            /\ UNCHANGED result
       ELSE Fails
  /\ Rests

\* What the player makes of the write: positions it has, or nothing.
Written(l) ==
  LET at == IF op.at \in DOMAIN l THEN l[op.at] ELSE [name |-> "none", rows |-> <<>>] IN
  CASE op.action = "create" -> Append(l, [name |-> op.name, rows |-> <<>>])
    [] op.action = "rename" /\ op.at \in DOMAIN l -> [l EXCEPT ![op.at].name = op.new]
    [] op.action = "add" /\ op.at \in DOMAIN l /\ op.index \in DOMAIN library ->
         [l EXCEPT ![op.at].rows = Append(@, library[op.index])]
    [] op.action = "remove" /\ op.index \in DOMAIN at.rows -> [l EXCEPT ![op.at].rows = RemoveAt(@, op.index)]
    [] OTHER -> l

RowOf(rows) == IF op.index \in DOMAIN rows THEN rows[op.index] ELSE "none"

\* The answer is 200 in either case, or is lost.
callback ==
  /\ op.pc = "send"
  /\ \E did \in BOOLEAN :
       /\ lists' = IF did THEN Written(lists) ELSE lists
       /\ wrote' = [made |-> TRUE, done |-> did /\ Written(lists) # lists,
                    name |-> IF op.at \in DOMAIN lists THEN lists[op.at].name ELSE "none",
                    row |-> RowOf(value(IF op.action = "add" THEN "source" ELSE "members")),
                    shown |-> RowOf(op.seen[IF op.action = "add" THEN "source" ELSE "members"])]
  /\ \/ Fails
     \/ /\ op' = [op EXCEPT !.pc = "readback", !.base = op.seen, !.seen = [s \in DOMAIN @ |-> Unread],
                            !.todo = Stable(IF op.action = "add" THEN "remove" ELSE op.action)]
        /\ UNCHANGED result
  /\ UNCHANGED <<library, changed, count>>

Confirms ==
  IF op.action \in {"create", "rename"}
  THEN Counter(op.seen.custom) = Counter(IF op.action = "create" THEN Append(op.base.custom, op.name)
                                         ELSE [i \in DOMAIN op.base.custom |-> IF op.base.custom[i] = op.name THEN op.new ELSE op.base.custom[i]])
  ELSE /\ op.seen.custom = op.base.custom
       /\ Counter(op.seen.members) = Counter(IF op.action = "add" THEN Append(op.base.members, op.base.source[op.index])
                                             ELSE RemoveAt(op.base.members, op.index))

confirm == op.pc = "readback" /\ op.todo = <<>> /\ (IF Confirms THEN Ends("confirmed") ELSE Fails) /\ Rests

\* A scan is seen, the connection ends or a request fails, anywhere.
Interrupted == op.pc # "over" /\ Fails /\ Rests

\* The player's own screen and other programs: any list of playlists, and the library.
Changes ==
  /\ op.pc # "over" /\ count < MaxChanges /\ count' = count + 1 /\ changed' = TRUE
  /\ \/ /\ UNCHANGED library
        /\ \/ lists # <<>> /\ lists' = Tail(lists)
           \/ \E n \in Names, i \in DOMAIN lists : lists' = [lists EXCEPT ![i].name = n]
           \/ \E s \in Songs, i \in DOMAIN lists : Len(lists[i].rows) < 2 /\ lists' = [lists EXCEPT ![i].rows = <<s>> \o @]
           \/ \E i \in DOMAIN lists : lists[i].rows # <<>> /\ lists' = [lists EXCEPT ![i].rows = Tail(@)]
     \/ library' \in Rows /\ UNCHANGED lists
  /\ UNCHANGED <<op, result, wrote>>

Next == read \/ edit \/ attempted \/ add_selection_to_playlist \/ callback \/ confirm \/ Interrupted \/ Changes
Spec == Init /\ [][Next]_vars

(* ----------------------------------- properties ----------------------------------- *)

TypeOK ==
  /\ result \in {"none", "not_sent", "already_satisfied", "uncertain", "confirmed"}
  /\ op.pc \in {"check", "last", "destination", "row", "destination again", "send", "readback", "over"}
  /\ \A i \in DOMAIN lists : lists[i].name \in Names \union {"x", "y"} /\ Range(lists[i].rows) \subseteq Songs

\* The write meets the named playlist and the row that was shown, and makes no second
\* playlist of a name, unless other hands changed something after the last check began.
MeetsItsTarget ==
  wrote.made /\ ~changed =>
    /\ op.action # "create" => wrote.name = op.name
    /\ op.action \in {"add", "remove"} => wrote.row = wrote.shown
    /\ Cardinality({i \in DOMAIN lists : lists[i].name = IF op.action = "rename" THEN op.new ELSE op.name}) <= 1

\* An edit reported as confirmed was made by the player or by someone else, one reported as
\* not sent never left, although the player answers 200 to a write it ignores.
OutcomeIsHonest ==
  /\ result = "confirmed" => wrote.done \/ changed
  /\ result \in {"not_sent", "already_satisfied"} => ~wrote.made
=================================================================================
