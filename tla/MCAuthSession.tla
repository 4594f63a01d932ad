---------------------------- MODULE MCAuthSession ----------------------------
(* A small instance of AuthSession: one browser sends two requests at once, the
   other one. *)
EXTENDS AuthSession, TLC

CONSTANTS b1, b2, c1, c2, c3, reset

MCBrowserOf == (c1 :> b1) @@ (c2 :> b1) @@ (c3 :> b2)

MCMay == (c1 :> {"login", "request", "logout"}) @@ (c2 :> {"request", "confirm"})
           @@ (c3 :> {"register", "login", "change", "forgot", "confirm"})

=============================================================================
