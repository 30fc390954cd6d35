------------------------------- MODULE Groups -------------------------------
(***************************************************************************)
(* A public group: the xdm server's handlers that create it, invite into   *)
(* it and take members out (xdm.cpp, db.cpp), and the message server's fan *)
(* out of a group chat to its members (message.cpp), over the tables they  *)
(* share.  Each worker of the xdm server runs a request to its end; two    *)
(* workers interleave at their SQL statements.                             *)
(*                                                                         *)
(* The group's names and portrait, and the iqs that tell of a change after *)
(* it was answered, are left out; a copy that is stored is delivered as    *)
(* any chat (Delivery).  Names are such that both can stand in one module. *)
(***************************************************************************)
EXTENDS Integers, FiniteSets

CONSTANTS
  Users,      \* all of them known to the xdm server
  Owner,      \* who creates the group
  Workers,    \* work threads of the xdm server
  Chats,      \* group chats, by their id
  GMax,       \* GMAXCOUNT
  Senders,    \* users who send group chats, members or not
  MaxEvents   \* invitations, SQL statements that fail and ends of a server, together

ASSUME GroupAssumption ==
  /\ Owner \in Users /\ IsFiniteSet(Users)
  /\ Senders \subseteq Users
  /\ GMax \in Nat \ {0} /\ MaxEvents \in Nat

VARIABLES
  group,    \* the group's rows of im_pub_group: 1 if all went well
  rows,     \* a user's rows of im_pub_groupuser with status=1
  wk,       \* a worker's place, the users it has to insert and the current one
  raced,    \* history: an insert while another worker had counted the members
  doubled,  \* history: users whose INSERT was run twice, and not deleted since
  fanout,   \* where a group chat stands
  left,     \* the members it has still to be stored for: rows of each user
  events    \* MaxEvents counts them

groupVars == <<group, rows, wk, raced, doubled, fanout, left, events>>

xdm    == <<group, rows, wk, raced, doubled>>
copies == <<fanout, left>>

NoRows == [u \in Users |-> 0]

Idle == [pc |-> "idle", todo |-> {}, cur |-> Owner]

GroupTypeOK ==
  /\ group \in 0 .. 2 /\ rows \in [Users -> Nat]
  /\ wk \in [Workers -> [pc : {"idle", "check", "delete", "insert", "quit"},
                         todo : SUBSET Users, cur : Users]]
  /\ raced \in BOOLEAN /\ doubled \subseteq Users
  /\ fanout \in [Chats -> {"new", "read", "stored", "fan", "done", "lost"}]
  /\ left \in [Chats -> [Users -> Nat]]
  /\ events \in 0 .. MaxEvents

GroupInit ==
  /\ group = 0 /\ rows = [u \in Users |-> 0]
  /\ wk = [w \in Workers |-> Idle]
  /\ raced = FALSE /\ doubled = {}
  /\ fanout = [c \in Chats |-> "new"]
  /\ left = [c \in Chats |-> NoRows]
  /\ events = 0

-----------------------------------------------------------------------------
CountEvent == events < MaxEvents /\ events' = events + 1

\* A statement that fails or whose first try failed, or a server that ends.
Fault == CountEvent

\* What an INSERT comes to: n rows, and whether it is reported as done.  The
\* agent runs it again after a first try that failed, which may have made its
\* row all the same, and so may the second.
Inserts(n, ok) ==
  /\ n \in 0 .. 2 /\ ok \in BOOLEAN
  /\ ok => n > 0
  /\ IF ok /\ n = 1 THEN UNCHANGED events ELSE Fault

\* The rows of the group's members, those of a user numbered.
MemberRows == UNION {{u} \X (1 .. rows[u]) : u \in Users}

Size == Cardinality(MemberRows)

Members == {u \in Users : rows[u] > 0}

\* ismember and getmemberlist look for exactly one row.
IsMember(u) == rows[u] = 1

\* Workers that have looked at the members and not inserted all of theirs.
Counted == {w \in Workers : wk[w].pc \in {"check", "delete", "insert"}}

\* The request of w is answered, with a 403 or with all done.
Finish(w) == wk' = [wk EXCEPT ![w] = Idle]

\* A DELETE or an UPDATE to status=0 takes effect: u has no row.
Clear(u) == rows' = [rows EXCEPT ![u] = 0] /\ doubled' = doubled \ {u}

\* One that fails may have taken effect all the same.
ClearFails(u) == Fault /\ (Clear(u) \/ UNCHANGED <<rows, doubled>>)

-----------------------------------------------------------------------------
(* The xdm server.                                                         *)

\* ProcessPubGroupCreate up to insertgroup; other members than two and more,
\* and too many, are refused.
Create(w, S) ==
  /\ wk[w].pc = "idle" /\ group = 0
  /\ Cardinality(S) > 1 /\ Cardinality(S) < GMax
  /\ \E n \in 0 .. 2, ok \in BOOLEAN :
       /\ Inserts(n, ok)
       /\ group' = n
       /\ IF ok
          THEN wk' = [wk EXCEPT ![w] =
                        [pc |-> "delete", todo |-> S \cup {Owner}, cur |-> Owner]]
          ELSE Finish(w)
  /\ UNCHANGED <<rows, raced, doubled, copies>>

\* Mutant of FitsIn: room for one is not counted.
FitsInOneMore(S) == Cardinality(S) + Size <= GMax + 1

\* invitecount + membercount > group._gmaxcount is refused.
FitsIn(S) == Cardinality(S) + Size <= GMax

\* ProcessPubGroupInvite by a member u up to the count of the members;
\* getgroupinfo looks for exactly one row.
Invite(w, u, S) ==
  /\ wk[w].pc = "idle" /\ group = 1 /\ CountEvent
  /\ IsMember(u) /\ S # {} /\ FitsIn(S)
  /\ wk' = [wk EXCEPT ![w] = [pc |-> "check", todo |-> S, cur |-> Owner]]
  /\ UNCHANGED <<group, rows, raced, doubled, copies>>

\* None of those invited may be a member; then upgroupinfo.  Look-ups that
\* fail count as no member.
Check(w) ==
  /\ wk[w].pc = "check"
  /\ \/ /\ \A u \in wk[w].todo : ~IsMember(u)
        /\ wk' = [wk EXCEPT ![w].pc = "delete"]
        /\ UNCHANGED events
     \/ /\ \E u \in wk[w].todo : IsMember(u)
        /\ Finish(w) /\ UNCHANGED events
     \/ Fault /\ (Finish(w) \/ wk' = [wk EXCEPT ![w].pc = "delete"])
  /\ UNCHANGED <<group, rows, raced, doubled, copies>>

\* insertmember for the next user, the owner first: DELETE ...
Delete(w) ==
  /\ wk[w].pc = "delete"
  /\ \E u \in wk[w].todo :
       /\ Owner \in wk[w].todo => u = Owner
       /\ \/ /\ Clear(u) /\ UNCHANGED events
             /\ wk' = [wk EXCEPT ![w] = [pc |-> "insert", todo |-> @.todo \ {u}, cur |-> u]]
          \/ ClearFails(u) /\ Finish(w)
  /\ UNCHANGED <<group, raced, copies>>

\* ... then INSERT, which is refused or makes a row more when another worker's
\* came in between (the table's keys are not known).  What was inserted before
\* a failure stays.
Insert(w) ==
  /\ wk[w].pc = "insert"
  /\ LET u == wk[w].cur IN
     \/ \E n \in 0 .. 2, ok \in BOOLEAN :
          /\ Inserts(n, ok)
          /\ rows' = [rows EXCEPT ![u] = @ + n]
          /\ doubled' = IF n = 2 THEN doubled \cup {u} ELSE doubled
          /\ raced' = (raced \/ (n > 0 /\ Counted # {w}))
          /\ IF ok /\ wk[w].todo # {} THEN wk' = [wk EXCEPT ![w].pc = "delete"]
             ELSE Finish(w)
     \/ /\ rows[u] > 0
        /\ Finish(w) /\ UNCHANGED <<rows, raced, doubled, events>>
  /\ UNCHANGED <<group, copies>>

\* ProcessPubGroupQuit of u.  It is answered with 200 also when u is no member.
Quit(w, u) ==
  /\ wk[w].pc = "idle" /\ IsMember(u)
  /\ wk' = [wk EXCEPT ![w] = [pc |-> "quit", todo |-> {}, cur |-> u]]
  /\ UNCHANGED <<group, rows, raced, doubled, copies, events>>

\* deletemember: all rows of the user.
DeleteMember(w) ==
  /\ wk[w].pc = "quit"
  /\ Finish(w)
  /\ \/ Clear(wk[w].cur) /\ UNCHANGED events
     \/ ClearFails(wk[w].cur)
  /\ UNCHANGED <<group, raced, copies>>

\* The xdm server ends and is started again: requests under way are gone.
XdmCrash ==
  /\ Fault
  /\ wk' = [w \in Workers |-> Idle]
  /\ UNCHANGED <<group, rows, raced, doubled, copies>>

-----------------------------------------------------------------------------
(* The message server: ProcessMessage for a group chat.                    *)

Goto(c, s) == fanout' = [fanout EXCEPT ![c] = s]

\* SELECT the members but the sender s, who need not be one.  Whether there is
\* such a group is not asked.
ReadMembers(c, s) ==
  /\ fanout[c] = "new"
  /\ \/ /\ Goto(c, "read")
        /\ left' = [left EXCEPT ![c] = [u \in Users |-> IF u = s THEN 0 ELSE rows[u]]]
        /\ UNCHANGED events
     \/ Fault /\ Goto(c, "lost") /\ UNCHANGED left
  /\ UNCHANGED xdm

\* INSERT INTO im_msg_gchat, then ProcessChatAck: the sender is answered before
\* any member has a copy.
StoreGroupChat(c) ==
  /\ fanout[c] = "read"
  /\ \/ Goto(c, "fan") /\ UNCHANGED <<left, events>>
     \/ Fault /\ Goto(c, "lost") /\ left' = [left EXCEPT ![c] = NoRows]
  /\ UNCHANGED xdm

\* ProcessChat for the next row, in the order of the database, which is that of
\* CHOOSE here: INSERT a copy with an id of its own.
NextUser(c) == CHOOSE u \in Users : left[c][u] > 0

NextRow(c) == left' = [left EXCEPT ![c][NextUser(c)] = @ - 1] /\ UNCHANGED fanout

\* Mutant of FanOut: the first copy that cannot be stored ends the loop.
FanOutStopping(c) ==
  /\ fanout[c] = "fan" /\ left[c] # NoRows
  /\ \/ NextRow(c) /\ UNCHANGED events
     \/ Fault /\ Goto(c, "done") /\ UNCHANGED left
  /\ UNCHANGED xdm

\* The copy is stored, or it is not and the loop goes on.
FanOut(c) ==
  /\ fanout[c] = "fan" /\ left[c] # NoRows
  /\ NextRow(c)
  /\ UNCHANGED events \/ Fault
  /\ UNCHANGED xdm

Done(c) ==
  /\ fanout[c] = "fan" /\ left[c] = NoRows
  /\ Goto(c, "done")
  /\ UNCHANGED <<left, xdm, events>>

\* The message server ends: nobody takes up a fan-out again.
MessageCrash ==
  /\ Fault
  /\ fanout' = [c \in Chats |-> IF fanout[c] \in {"read", "fan"} THEN "lost" ELSE fanout[c]]
  /\ left' = [c \in Chats |-> NoRows]
  /\ UNCHANGED xdm

-----------------------------------------------------------------------------
Work(w) == Check(w) \/ Delete(w) \/ Insert(w) \/ DeleteMember(w)

Serve(c) == StoreGroupChat(c) \/ FanOut(c) \/ Done(c)

GroupNext ==
  \/ \E w \in Workers :
       \/ \E S \in SUBSET (Users \ {Owner}) : Create(w, S)
       \/ \E u \in Users, S \in SUBSET Users : Invite(w, u, S)
       \/ \E u \in Users : Quit(w, u)
       \/ Work(w)
  \/ \E c \in Chats : Serve(c) \/ \E s \in Senders : ReadMembers(c, s)
  \/ XdmCrash
  \/ MessageCrash

GroupSpec == GroupInit /\ [][GroupNext]_groupVars

\* The message server's threads run.  (Nothing is asked of the xdm server's.)
GroupFairness == \A c \in Chats : WF_groupVars(Serve(c))

GroupFairSpec == GroupSpec /\ GroupFairness

-----------------------------------------------------------------------------
\* The group never has more people in it than GMAXCOUNT, through failures,
\* quits, crashes and INSERTs that are run twice, as long as no worker inserts
\* members while another one relies on the members it has counted; and nothing
\* but such an INSERT, by which a member gets a second row, puts anyone in twice.
GroupIsSound ==
  ~raced => /\ Cardinality(Members) <= GMax
            /\ \A u \in Users : rows[u] <= 1 \/ (rows[u] = 2 /\ u \in doubled)

\* A group chat that was answered goes through everyone who was a member then,
\* whatever becomes of the others' copies, unless the server ends.
AnsweredReachesMembers ==
  \A c \in Chats : fanout[c] = "fan" ~> (fanout[c] = "lost" \/ left[c] = NoRows)
=============================================================================
