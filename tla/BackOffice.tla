-------------------------------- MODULE BackOffice ------------------------------
(***************************************************************************)
(* The services behind the roster, side by side in one process: the        *)
(* member's account and its erasure, the roles the member wears in the     *)
(* guild, the gate that asks whether the member is in the guild at all,    *)
(* the catalogue of ranks and medals, the gallery, the capability matrix,  *)
(* the bot's settings, the console and the notices it lets out, the chain  *)
(* of command among the members, and what the pages of the site show.      *)
(*                                                                         *)
(* They share no variable: what one needs of another is an input of its    *)
(* own module.  So a behaviour is about one of them, its focus, and the    *)
(* others stay as they began.  Checked together they answer, with one      *)
(* search, what nine would.                                                *)
(***************************************************************************)
EXTENDS Membership, RoleSync, GuildGate, Catalogue, Gallery, Administration,
        Console, Command, PublicSite

CONSTANT Foci  \* the services a behaviour may be about

ASSUME FociAssumption ==
    Foci \subseteq {"account", "roles", "gate", "ranks", "pictures", "admin",
                     "console", "command", "public"}

VARIABLE focus  \* what this behaviour is about

backOfficeVars == <<focus, accountVars, roleVars, gateVars, catalogueVars,
                    galleryVars, adminVars, consoleVars, commandVars, siteVars>>

\* What a service begins with is free where it is the focus, and some one start
\* where it is not.
Init ==
    /\ focus \in Foci
    /\ AccountInit
    /\ focus # "account" => /\ topic = CHOOSE t \in Topics : TRUE
                            /\ deletions = [r \in 1 .. MaxRequests |-> "none"]
    /\ RolesInit
    /\ focus # "roles" => phase = "guest" /\ ~row.banned /\ ~present
    /\ GateInit
    /\ focus # "gate" => /\ concern = (CHOOSE c \in Concerns : TRUE) /\ ~firstIn
                         /\ stored = Never
    /\ CatalogueInit
    /\ focus # "ranks" => entries[CHOOSE e \in RankIds : TRUE].there
    /\ GalleryInit
    /\ AdminInit
    /\ focus # "admin" => /\ matter = CHOOSE m \in Matters : TRUE
                          /\ \A c \in Cells : table[c] # "none"
    /\ ConsoleInit
    /\ focus # "console" => agenda = (CHOOSE a \in Agendas : TRUE) /\ ~online
    /\ CommandInit
    /\ focus # "command" => first = CHOOSE o \in Openings : TRUE
    /\ SiteInit
    /\ focus # "public" => theme = (CHOOSE t \in Themes : TRUE) /\ site.configured

\* While one service takes a step the others keep their state.
Others(f) ==
    /\ IF f = "account" THEN TRUE ELSE UNCHANGED accountVars
    /\ IF f = "roles" THEN TRUE ELSE UNCHANGED roleVars
    /\ IF f = "gate" THEN TRUE ELSE UNCHANGED gateVars
    /\ IF f = "ranks" THEN TRUE ELSE UNCHANGED catalogueVars
    /\ IF f = "pictures" THEN TRUE ELSE UNCHANGED galleryVars
    /\ IF f = "admin" THEN TRUE ELSE UNCHANGED adminVars
    /\ IF f = "console" THEN TRUE ELSE UNCHANGED consoleVars
    /\ IF f = "command" THEN TRUE ELSE UNCHANGED commandVars
    /\ IF f = "public" THEN TRUE ELSE UNCHANGED siteVars

Rest(f) == UNCHANGED focus /\ Others(f)

Next ==
    \/ focus = "account" /\ AccountNext /\ Rest("account")
    \/ focus = "roles" /\ RolesNext /\ Rest("roles")
    \/ focus = "gate" /\ GateNext /\ Rest("gate")
    \/ focus = "ranks" /\ CatalogueNext /\ Rest("ranks")
    \/ focus = "pictures" /\ GalleryNext /\ Rest("pictures")
    \/ focus = "admin" /\ AdminNext /\ Rest("admin")
    \/ focus = "console" /\ ConsoleNext /\ Rest("console")
    \/ focus = "command" /\ CommandNext /\ Rest("command")
    \/ focus = "public" /\ SiteNext /\ Rest("public")

Spec == Init /\ [][Next]_backOfficeVars

(***************************************************************************)
(* The process as it runs: every service may take the next step, whichever *)
(* took the last one.  Its states are the products of the services', too   *)
(* many to search; what is proved is proved of it, and of Spec, whose      *)
(* behaviours are some of its own.                                         *)
(***************************************************************************)
serviceVars == <<accountVars, roleVars, gateVars, catalogueVars, galleryVars,
                 adminVars, consoleVars, commandVars, siteVars>>

Begin == /\ AccountInit /\ RolesInit /\ GateInit /\ CatalogueInit /\ GalleryInit
         /\ AdminInit /\ ConsoleInit /\ CommandInit /\ SiteInit

Step ==
    \/ AccountNext /\ Others("account")
    \/ RolesNext /\ Others("roles")
    \/ GateNext /\ Others("gate")
    \/ CatalogueNext /\ Others("ranks")
    \/ GalleryNext /\ Others("pictures")
    \/ AdminNext /\ Others("admin")
    \/ ConsoleNext /\ Others("console")
    \/ CommandNext /\ Others("command")
    \/ SiteNext /\ Others("public")

Process == Begin /\ [][Step]_serviceVars

(***************************************************************************)
(* Properties: those of the services, stated and explained in their        *)
(* modules.                                                                *)
(***************************************************************************)
\* The variables of the service in focus; the others' are as they began.
TypeOK ==
    CASE focus = "account" -> AccountTypeOK
      [] focus = "roles" -> RolesTypeOK
      [] focus = "gate" -> GateTypeOK
      [] focus = "ranks" -> CatalogueTypeOK
      [] focus = "pictures" -> GalleryTypeOK
      [] focus = "admin" -> AdminTypeOK
      [] focus = "console" -> ConsoleTypeOK
      [] focus = "command" -> CommandTypeOK
      [] focus = "public" -> SiteTypeOK

\* What an administrator has saved is in force and stays saved: the matrix and the
\* bot's settings (Administration), the rows of the console and the notices that
\* depend on them (Console).
SavedIsInForce == AdministrationHolds /\ ConsoleHolds
================================================================================
