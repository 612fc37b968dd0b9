------------------------------ MODULE MCClients ------------------------------
(***************************************************************************)
(* The session of one user, held by a phone or by a browser.  A behaviour  *)
(* is about one of the two: the server keeps nothing that relates the      *)
(* tokens of two clients.                                                  *)
(***************************************************************************)
EXTENDS MobileSession, WebSession, TLC

VARIABLE client

Clients == {"phone", "browser"}
clientVars == <<client, vars, browser>>

ClientsInit ==
    /\ client \in Clients
    /\ Init
    /\ WebInit

ClientsNext ==
    \/ /\ client = "phone" /\ Next
       /\ UNCHANGED <<client, browser>>
    \/ /\ client = "browser" /\ WebNext
       /\ UNCHANGED <<client, phone>>

ClientsSpec == ClientsInit /\ [][ClientsNext]_clientVars

\* Requests and tabs are interchangeable.
Symmetry == Permutations(Requests) \cup Permutations(Tabs)

=============================================================================
