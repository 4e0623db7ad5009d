----------------------------- MODULE MCExchanges -----------------------------
(***************************************************************************)
(* Requests and their answers: the two exchanges between the server and an *)
(* agent whose answers are told apart by little, questions kept by agent   *)
(* and action, and downloads without a request id; and the GUI's requests, *)
(* of threads that share a login (Accounts) and that come in no order      *)
(* (AgentsTab).  A behaviour is one of them, chosen at the start; the      *)
(* variables of the others keep their first value.                         *)
(***************************************************************************)
EXTENDS Requests, TLC

CONSTANTS
  Peer, Unsteady, Pieces, Download,                              \* of Downloads
  Thread, Name, Secret, Configured, DefaultName, DefaultSecret,  \* of Accounts
  Operation, ByGui,
  Listed, RequestBound                                           \* of AgentsTab

VARIABLES
  part,
  getAt, getResult, lock, gets, receiver, saved, getSession, getLink, getDown, getUp, getOld,
  broken, getCrossed,
  users, up2, cookie, failed, browser, request,
  tree, selected, streaming, streams, polled, afterId, requests, links, late

G == INSTANCE Downloads WITH
       Agent <- Peer, Request <- Download,
       at <- getAt, result <- getResult, session <- getSession, link <- getLink,
       down <- getDown, up <- getUp, old <- getOld, crossed <- getCrossed

U == INSTANCE Accounts WITH Asked <- ByGui, up <- up2

A == INSTANCE AgentsTab WITH Agent <- Listed, pending <- polled

\* Every version of a file has a piece.
ASSUME DownloadAssumption ==
  Pieces \in Seq(Nat \ {0}) /\ \A r \in Download : r.agent \in Peer

-----------------------------------------------------------------------------
(* The instances that are checked.                                         *)

\* The questions.  Agent "a1" asks nothing; its id is the start of the other's.
Agents == {"a1", "a10"}
Questions ==
  {[agent |-> "a10", action |-> "stop", id |-> 1], [agent |-> "a10", action |-> "stop", id |-> 2],
   [agent |-> "a10", action |-> "start", id |-> 3]}
Starts == {<<"a1", "a1">>, <<"a1", "a10">>, <<"a10", "a10">>}

\* A file grows from one piece to two while it is read.
OneThenTwo == <<1, 2>>
ThreeFiles ==
  {[agent |-> "a", file |-> "f"], [agent |-> "a", file |-> "g"], [agent |-> "b", file |-> "h"]}

Account == [name |-> "admin", password |-> "p"]
Operations ==
  {[kind |-> "agents"],
   [kind |-> "create", name |-> "kim",
    user |-> [password |-> "p", role |-> "admin", permissions |-> {}]],
   [kind |-> "update", name |-> "admin", password |-> {"q"}, role |-> {}, permissions |-> {}],
   [kind |-> "delete", name |-> "admin"]}
AgentsAndUpdate == {o \in Operations : o.kind \in {"agents", "update"}}

\* The threads of the GUI are alike.
Symmetry == Permutations(Thread)

-----------------------------------------------------------------------------

downloadVars == <<getAt, getResult, lock, gets, receiver, saved, getSession, getLink, getDown,
                  getUp, getOld, broken, getCrossed>>
accountVars == <<users, up2, cookie, failed, browser, request>>
tabVars == <<tree, selected, streaming, streams, polled, afterId, requests, links, late>>
allVars == <<part, vars, downloadVars, accountVars, tabVars>>

AllInit ==
  /\ part \in {"question", "download", "accounts", "tab"}
  /\ Init /\ (part # "question" => kind = "config")
  /\ G!Init
  /\ U!Init
  /\ A!Init

AllNext ==
  \/ part = "question" /\ Next /\ UNCHANGED <<part, downloadVars, accountVars, tabVars>>
  \/ part = "download" /\ G!Next /\ UNCHANGED <<part, vars, accountVars, tabVars>>
  \/ part = "accounts" /\ U!Next /\ UNCHANGED <<part, vars, downloadVars, tabVars>>
  \/ /\ part = "tab" /\ A!Next
     /\ late = {}        \* OnlyWhatIsShown says nothing of what follows
     /\ UNCHANGED <<part, vars, downloadVars, accountVars>>

AllSpec == AllInit /\ [][AllNext]_allVars

-----------------------------------------------------------------------------
\* The properties of the modules, where they are explained; OwnAnswer is of Requests.
\* A file that is reported as saved is whole, and the one that was asked for.
SavedIsWhole == G!SavedIsWhole /\ G!OwnFile
RefusedIsUnknown == U!RefusedIsUnknown
OnlyWhatIsShown == A!OnlyWhatIsShown
=============================================================================
