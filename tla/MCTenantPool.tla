--------------------------- MODULE MCTenantPool -----------------------------
(* Three jobs over two roles, and room for one sub-pool of one connection: *)
(* every miss evicts a pool whose connection may be out or asked for.      *)
EXTENDS TenantPool, TLC

CONSTANTS j1, j2, j3, r1, r2, p1, p2, p3, p4, p5

ThreeJobs == {j1, j2, j3}
TwoRoles == {r1, r2}
FivePools == {p1, p2, p3, p4, p5}
=============================================================================
