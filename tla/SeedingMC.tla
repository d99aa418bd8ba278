---------------------------- MODULE SeedingMC ---------------------------
(***************************************************************************)
(* A small instance of Seeding.  A unit is about a minute: HEARTBEAT = 120 *)
(* seconds are two, SEEDER_TTL_SECS = 600 ten; Seeding.cfg takes nine,     *)
(* the smallest time-to-live that covers its losses and its clock.         *)
(***************************************************************************)
EXTENDS Seeding

CONSTANT MaxTime        \* bound on real time

Bounded == now <= MaxTime
=========================================================================
