--------------------------------- MODULE Command --------------------------------
(***************************************************************************)
(* The chain of command: who may appoint, moderate and decorate whom.      *)
(*                                                                         *)
(* A request comes with the role its caller had when the session was       *)
(* resolved; the handler loads its target, checks the one against the      *)
(* other, and later saves the whole row it has loaded.  Enlisting and      *)
(* leaving are Enlistment's and Membership's subject, how long a resolved  *)
(* session may serve is Membership's, ranks and awards are RoleSync's.     *)
(***************************************************************************)
EXTENDS Integers

CONSTANTS
    Comrades,     \* the members of the regiment
    Chief,        \* the one regiments.owner_member_id points at
    Appointers,   \* roles that hold manage_roles
    Keepers,      \* roles that hold edit_ranks_medals
    Asked,        \* actions that are asked for
    Openings,     \* the roles it may begin with, [Comrades -> Seats]
    Warrants,     \* requests under way at once, numbered
    MaxWarrants   \* bound: requests in all

\* ROLE_PRECEDENCE
Height == [owner |-> 50, admin |-> 40, moderator |-> 30, member |-> 20,
           mercenary |-> 10, applicant |-> 0]
Seats == DOMAIN Height

Decorations == {"changeRank", "awardMedal", "removeMedal", "deriveFromDiscord"}
Moderations == {"changeRole", "suspend", "unsuspend", "ban", "unban"}
MemberAdminActions == Decorations \cup Moderations

ASSUME CommandAssumption ==
    /\ Chief \in Comrades
    /\ Appointers \subseteq Seats /\ Keepers \subseteq Seats
    /\ Asked \subseteq MemberAdminActions
    /\ \A o \in Openings : /\ o \in [Comrades -> Seats]
                           /\ \A m \in Comrades : o[m] = "owner" <=> m = Chief
    /\ Warrants \subseteq Nat /\ MaxWarrants \in Nat

VARIABLES
    seats,     \* [Comrades -> of the members row: role, suspended, banned]
    contexts,  \* [Comrades -> the row as the session of this member has it]
    warrants,  \* [Warrants -> a request and what it has read]
    issued,    \* how much of MaxWarrants is spent
    first,     \* [Comrades -> the role it all began with]
    hands,     \* history: who has used a power over roles
    hollowed   \* history: somebody lost seat or access to a peer, or to less

commandVars == <<seats, contexts, warrants, issued, first, hands, hollowed>>

Row == [role : Seats, suspended : BOOLEAN, banned : BOOLEAN]
InOffice(role) == [role |-> role, suspended |-> FALSE, banned |-> FALSE]
WarrantRecord ==
    [at : {"idle", "load", "save", "drop"}, by : Comrades, role : Seats, of : Comrades,
     action : MemberAdminActions \cup {"none"}, gives : Seats \cup {"none"}, copy : Row,
     moved : BOOLEAN]
\* moved: the row of the caller is not, or no longer, what the session said.
NoWarrant == [at |-> "idle", by |-> Chief, role |-> "owner", of |-> Chief,
              action |-> "none", gives |-> "none", copy |-> InOffice("owner"),
              moved |-> FALSE]

CommandInit ==
    /\ first \in Openings
    /\ seats = [m \in Comrades |-> InOffice(first[m])]
    /\ contexts = seats
    /\ warrants = [w \in Warrants |-> NoWarrant]
    /\ issued = 0
    /\ hands = {} /\ hollowed = FALSE

(***************************************************************************)
(* The rules.                                                              *)
(***************************************************************************)
Outranks(actor, target) == Height[actor] > Height[target]

\* Only what the appointee was before is looked at.
CanGrantRole_Anything(actor, granted) == granted # "owner"

\* A peer may be appointed, a superior not; Owner by nobody.
CanGrantRole(actor, granted) ==
    granted # "owner" /\ Height[granted] <= Height[actor]

\* denyReason(): not oneself, not the owner, nobody who is not strictly below.
CanActOn(by, role, target, row, action) ==
    \/ action \in Decorations
    \/ by # target /\ target # Chief /\ Outranks(role, row.role)

\* ACTION_CAPABILITY, which the routes ask for too.
Holds(role, action) ==
    role \in IF action \in Moderations THEN Appointers ELSE Keepers

\* The flags the client is shown are the rule itself.
PermittedActions(by, role, target, row) ==
    {a \in MemberAdminActions : CanActOn(by, role, target, row, a) /\ Holds(role, a)}

\* What the handler refuses besides.
Accepts(role, row, action, gives) ==
    /\ action = "changeRole" => CanGrantRole(role, gives) /\ gives # row.role
    /\ action = "unsuspend" => row.suspended
    /\ action = "ban" => ~row.banned
    /\ action = "unban" => row.banned

\* What it makes of the row it has loaded.
Rewritten(row, action, gives) ==
    [role |-> IF action = "changeRole" THEN gives ELSE row.role,
     suspended |-> (row.suspended \/ action = "suspend") /\ action # "unsuspend",
     banned |-> (row.banned \/ action = "ban") /\ action # "unban"]

(***************************************************************************)
(* The request: session and capability, target and rules, save, and the    *)
(* drop of the target's session.                                           *)
(***************************************************************************)
GiveOrder(w, by, target, action) ==
    LET caller == contexts[by]
    IN /\ \A v \in Warrants : v <= w => (warrants[v].at = "idle" <=> v = w)
       /\ issued < MaxWarrants /\ issued' = issued + 1
       /\ ~caller.suspended /\ ~caller.banned /\ Holds(caller.role, action)
       /\ warrants' = [warrants EXCEPT ![w] =
            [NoWarrant EXCEPT !.at = "load", !.by = by, !.role = caller.role,
               !.of = target, !.action = action,
               !.moved = IF caller = seats[by] THEN FALSE ELSE TRUE]]
       /\ UNCHANGED <<seats, contexts, first, hands, hollowed>>

\* loadMember() and assertMayActOn(): a refusal leaves nothing behind.
Accept(w, gives) ==
    LET order == warrants[w]
        row == seats[order.of]
    IN /\ order.at = "load"
       /\ order.action \in PermittedActions(order.by, order.role, order.of, row)
       /\ Accepts(order.role, row, order.action, gives)
       /\ warrants' = [warrants EXCEPT ![w] =
            [order EXCEPT !.at = "save", !.gives = gives, !.copy = row]]
       /\ hands' = IF order.action = "changeRole" THEN hands \cup {order.by} ELSE hands
       /\ UNCHANGED <<seats, contexts, issued, first, hollowed>>

Refuse(w) ==
    /\ warrants[w].at = "load"
    /\ warrants' = [warrants EXCEPT ![w] = NoWarrant]
    /\ UNCHANGED <<seats, contexts, issued, first, hands, hollowed>>

\* Somebody is worse off than before.
Loses(old, new) ==
    \/ Outranks(old.role, new.role)
    \/ new.suspended /\ ~old.suspended
    \/ new.banned /\ ~old.banned

\* save(): the whole row as it was loaded, but for the change.  Awards, and what
\* is derived from Discord, are written elsewhere.
SaveOrder(w) ==
    LET order == warrants[w]
        m == order.of
        old == seats[m]
        new == IF order.action \in Moderations \cup {"changeRank"}
                 THEN Rewritten(order.copy, order.action, order.gives) ELSE old
    IN /\ order.at = "save"
       /\ seats' = [seats EXCEPT ![m] = new]
       /\ hollowed' = (hollowed \/ /\ Loses(old, new)
                                   /\ ~order.moved /\ order.copy = old
                                   /\ ~Outranks(seats[order.by].role, old.role))
       /\ warrants' = [v \in Warrants |->
            IF v # w THEN [warrants[v] EXCEPT !.moved = @ \/ (warrants[v].by = m /\ new # old)]
            ELSE IF order.action \in {"changeRole", "suspend", "ban"}
                   THEN [order EXCEPT !.at = "drop"] ELSE NoWarrant]
       /\ UNCHANGED <<contexts, issued, first, hands>>

\* sessionContext.invalidate(), after the service record and the audit entry.
DropSession(w) ==
    /\ warrants[w].at = "drop"
    /\ contexts' = [contexts EXCEPT ![warrants[w].of] = seats[warrants[w].of]]
    /\ warrants' = [warrants EXCEPT ![w] = NoWarrant]
    /\ UNCHANGED <<seats, issued, first, hands, hollowed>>

\* A cached session runs out, and is resolved again.
ResolveSession(m) ==
    /\ contexts' = [contexts EXCEPT ![m] = seats[m]]
    /\ UNCHANGED <<seats, warrants, issued, first, hands, hollowed>>

CommandNext ==
    \/ \E w \in Warrants :
         \/ \E by, target \in Comrades, action \in Asked : GiveOrder(w, by, target, action)
         \/ \E gives \in Seats : Accept(w, gives)
         \/ Refuse(w) \/ SaveOrder(w) \/ DropSession(w)
    \/ \E m \in Comrades : ResolveSession(m)

CommandSpec == CommandInit /\ [][CommandNext]_commandVars

(***************************************************************************)
(* Properties.                                                             *)
(***************************************************************************)
CommandTypeOK ==
    /\ seats \in [Comrades -> Row] /\ contexts \in [Comrades -> Row]
    /\ first \in [Comrades -> Seats]
    /\ warrants \in [Warrants -> WarrantRecord]
    /\ issued \in 0 .. MaxWarrants /\ hands \subseteq Comrades /\ hollowed \in BOOLEAN

\* One of them began at least as high.
Backed(role, by) == \E a \in by : Height[first[a]] >= Height[role]

\* No chain of appointments lifts anybody above the highest of those who
\* appointed, as it all began, through sessions and rows however stale; and
\* nobody but the owner sits in the owner's seat.
NoEscalation ==
    \A m \in Comrades : /\ Backed(seats[m].role, hands \cup {m})
                        /\ seats[m].role = "owner" <=> m = Chief

\* The owner is neither demoted nor shut out, by whoever.
OwnerStands == seats[Chief] = InOffice("owner")

\* A seat holder can widen the command and never hollow it out: nobody loses a
\* seat, or access, to somebody who is not strictly above as it happens; but for
\* a caller who has just been moved, and for a row that was saved by another
\* request since it was loaded, which the save puts back as it was.
NeverHollowed == ~hollowed

\* The chain of command holds (member-hierarchy, and the handlers it guards).
CommandStands == NoEscalation /\ OwnerStands /\ NeverHollowed
================================================================================
