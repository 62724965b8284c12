------------------------------ MODULE MCLogins ------------------------------
(* Logins that overlap in create_admin_session, with room for one session.  *)
EXTENDS Logins
=============================================================================
