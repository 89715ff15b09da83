---- MODULE MCDeviceIngestion ----
(* Two organizations with a token each; the second one's was created for   *)
(* d1. The collector of d1 reports with the first one's; another request   *)
(* is a second run of it, the installation of the other organization on d1 *)
(* or by mistake on d2, another device that was installed with the same    *)
(* command, or a body that names d2 and holds a snapshot of d1.            *)
EXTENDS DeviceIngestion, TLC

CONSTANTS o1, o2, k1, k2, d1, d2, a1, a2, q1, q2

MCOrgOf == (k1 :> o1) @@ (k2 :> o2)
MCRuntimeOf == (a1 :> "r1") @@ (a2 :> "r1")
MCContents ==
  (d1 :> {[runtimes |-> {"r1"}, agents |-> {a1}],
          [runtimes |-> {"r1"}, agents |-> {a2}]})
  @@ (d2 :> {})
MCPresets == (k1 :> {None}) @@ (k2 :> {d1})
MCSenders ==
  (q1 :> {<<k1, d1, d1>>})
  @@ (q2 :> {<<k1, d1, d1>>, <<k2, d1, d1>>, <<k2, d2, d2>>, <<k1, d2, d2>>, <<k1, d2, d1>>})
====
