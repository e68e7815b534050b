---------------------------- MODULE MCServerParts ----------------------------
(***************************************************************************)
(* The parts of the gateway for TLC.  MCServerParts.cfg has the bounds:    *)
(*   - gateways start one after the other (see MCLockOverlap.cfg)          *)
(*   - more producers than the buffer has room for                         *)
(*   - three sessions, of which one has two ops, share two slots           *)
(*   - time passes two lives of a tool request                             *)
(*   - two stores of one workspace, a crash of each, and no holder that is *)
(*     slower than the lock's age                                          *)
(*   - two small blobs and a large one: each cap is met alone              *)
(*   - signals come once the children are started, and bootstrap fails     *)
(*     before it serves (see ChildrenDieWithServer and ServingHoldsLock)   *)
(*   - two calls on the same files, attaching among them, and a fault      *)
(*   - one agent event, for posts never wait for each other                *)
(*   - two windows, and a sweep as soon as there are two buckets           *)
(*   - every command but setup may be killed (see InitializedIsWritten)    *)
(*   - commands on extensions die between any two files, but do not write  *)
(*     what another reads                                                  *)
(***************************************************************************)
EXTENDS ServerParts, TLC

CONSTANTS a, b, c, o1, o2, o3, o4

PartSessionOf == (o1 :> a) @@ (o2 :> a) @@ (o3 :> b) @@ (o4 :> c)
PartSizeOf    == (a :> 1) @@ (b :> 1) @@ (c :> 2)

ASSUME PartConstants
=============================================================================
