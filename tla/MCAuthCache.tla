---- MODULE MCAuthCache ----
(* One organization, its users and roles, for TLC. *)
EXTENDS AuthCache
====
