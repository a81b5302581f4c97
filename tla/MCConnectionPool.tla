------------------------- MODULE MCConnectionPool -------------------------
(* Two requests of one employee and one of another, in a pool that has one
   connection for each. *)
EXTENDS ConnectionPool

CONSTANTS r1, r2, r3, alice, bob

MCRequests == {r1, r2, r3}
MCEmployees == {alice, bob}
MCEmployeeOf == [r \in MCRequests |-> IF r = r3 THEN bob ELSE alice]
===========================================================================
