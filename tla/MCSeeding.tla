------------------------------ MODULE MCSeeding ------------------------------
(***************************************************************************)
(* Seeding with two default roles and two demo users; the phones of the    *)
(* demo users are fixed in cmd/server/main.go, the emails are not.         *)
(***************************************************************************)
EXTENDS Seeding

CONSTANTS pod1, pod2, pod3, customer, admin, demo, renamed, boss, ph1, ph2, ph3

MCDefaultRoles == <<customer, admin>>

DemoUsers(email) ==
  <<[email |-> email, phone |-> ph1, role |-> customer],
    [email |-> boss, phone |-> ph2, role |-> admin]>>

\* Every pod is configured alike.
MCEnvironment == {DemoUsers(demo)}

\* DEMO_CUSTOMER_EMAIL is changed between two starts.
MCRenamed == {DemoUsers(demo), DemoUsers(renamed)}
=============================================================================
