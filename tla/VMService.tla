----------------------------- MODULE VMService ------------------------------
(***************************************************************************)
(* What the daemon promises its clients: a set of VMs that they provision, *)
(* kill and ask for, each request taking effect at one instant between its *)
(* call and its result.                                                    *)
(***************************************************************************)
CONSTANTS Client, Name,
          lost   \* the result of a call that the daemon did not answer

VARIABLES
  up,        \* the daemon takes requests
  serving,   \* the VMs that are there
  call,      \* per client: <<operation, name>> of its request, <<>> if none
  result     \* per client: the result of its last request
vars == <<up, serving, call, result>>

Init ==
  /\ up = FALSE /\ serving = {}
  /\ call = [c \in Client |-> <<>>]
  /\ result = [c \in Client |-> lost]

Call(c, o, n) ==
  /\ up /\ call[c] = <<>>
  /\ call' = [call EXCEPT ![c] = <<o, n>>]
  /\ UNCHANGED <<up, serving, result>>

Return(c, r) ==
  /\ call' = [call EXCEPT ![c] = <<>>]
  /\ result' = [result EXCEPT ![c] = r]
  /\ UNCHANGED up

\* A provisioning may fail; a VM that is there is not replaced.
Provision(c, n) ==
  /\ call[c] = <<"provision", n>>
  /\ \/ n \notin serving /\ serving' = serving \union {n} /\ Return(c, "ip")
     \/ UNCHANGED serving /\ Return(c, "not_found")

Kill(c, n) ==
  /\ call[c] = <<"kill", n>>
  /\ \/ n \in serving /\ serving' = serving \ {n} /\ Return(c, "ok")
     \/ n \notin serving /\ UNCHANGED serving /\ Return(c, "not_found")

Ask(c, n) ==
  /\ \/ call[c] = <<"ip", n>> /\ n \in serving /\ Return(c, "ip")
     \/ call[c] = <<"nat", n>> /\ n \in serving /\ Return(c, "ok")
     \/ call[c] \in {<<"ip", n>>, <<"nat", n>>} /\ n \notin serving
        /\ Return(c, "not_found")
  /\ UNCHANGED serving

Start == ~ up /\ up' = TRUE /\ serving = {} /\ UNCHANGED <<serving, call, result>>

\* The daemon stops: the VMs are gone, and some calls get no result.
Halt ==
  /\ up' = FALSE /\ serving' = {}
  /\ \E L \in SUBSET Client :
       /\ call' = [c \in Client |-> IF c \in L THEN <<>> ELSE call[c]]
       /\ result' = [c \in Client |-> IF c \in L THEN lost ELSE result[c]]

Next ==
  \/ \E c \in Client, n \in Name :
       \/ \E o \in {"provision", "kill", "ip", "nat"} : Call(c, o, n)
       \/ Provision(c, n) \/ Kill(c, n) \/ Ask(c, n)
  \/ Start \/ Halt

Spec == Init /\ [][Next]_vars
=============================================================================
