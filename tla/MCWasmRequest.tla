---------------------------- MODULE MCWasmRequest ----------------------------
(***************************************************************************)
(* Deployments and clients for the runs of WasmRequest.                    *)
(***************************************************************************)
EXTENDS WasmRequest

Site(phases, buffering, body) ==
  [phases |-> phases, buffering |-> buffering, body |-> body]

\* Every choice of phases, with and without buffering, and every kind of body;
\* a body that comes late only where a rewrite phase is the one to read it.
MCSites ==
  {Site(ps, buf, b) : ps \in SUBSET PhaseNames, buf \in BOOLEAN, b \in Bodies}
    \ {Site(ps, TRUE, "slow") : ps \in SUBSET {"content"}}

\* The content phase alone, with a client that sends its body late.
LateBodySites == {Site({"content"}, TRUE, "slow")}

\* Two phases and a body.
TwoPhaseSites == {Site({"rewrite", "content"}, TRUE, "here")}
=============================================================================
