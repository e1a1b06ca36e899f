---- MODULE MCLeases ----
EXTENDS Leases
====
