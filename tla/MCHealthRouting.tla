-------------------------- MODULE MCHealthRouting --------------------------
(* Values for model checking HealthRouting: two runtimes with a deployment *)
(* each, and perhaps a third one, misconfigured, which ends every tick.    *)
EXTENDS HealthRouting

CONSTANTS r1, r2, r3, d1, d2

MCRuntimes == {r1, r2, r3}
MCOrders == {<<r1, r2>>, <<r1, r2, r3>>}
MCDeployments == {d1, d2}
MCRuntimeOf == [d \in MCDeployments |-> IF d = d1 THEN r1 ELSE r2]
MCMisconfigured == {r3}
============================================================================
