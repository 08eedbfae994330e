----------------------------- MODULE MCRoleRelink -----------------------------
(* Small instances of RoleRelink: three members, one rank, one medal.      *)
EXTENDS RoleRelink
CONSTANTS rank, medal, A, B, none, x

MCMembers == 1..3
MCTwo == 1..2
MCRank == {rank}
MCRankAndMedal == {rank, medal}
MCRoles == {A, B}
MCOneAdmin == {x}
MCNobodyActs == [a \in Admins |-> 0]
MCThirdActs == [a \in Admins |-> 3]
\* Everyone holds the rank; the medal, if there is one, is held by member 2
\* and carries the same role.
MCLinkA == [s \in Subjects |-> A]
MCHolders == [s \in Subjects |-> IF s = rank THEN Members ELSE {2}]
=============================================================================
