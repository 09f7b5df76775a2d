------------------------ MODULE MCCommonsExperiments ------------------------
(***************************************************************************)
(* Every cell of the six designs.                                         *)
(***************************************************************************)
EXTENDS CommonsExperiments

MCParts ==
  [experiment : {"audit"}, of : AF!Timings]
    \cup [experiment : {"noisy"}, of : NC!Labels]
    \cup [experiment : {"quality"}, of : QS!Topologies]
    \cup [experiment : {"atlas"}, of : IA!Topologies]
    \cup [experiment : {"responsive"}, of : DOMAIN RC!Rules]
    \cup [experiment : {"ablation"}, of : RA!Contexts]
=============================================================================
