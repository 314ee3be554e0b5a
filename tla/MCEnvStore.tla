----------------------------- MODULE MCEnvStore -----------------------------
(***************************************************************************)
(* Two of the five credentials are enough to mix them; one other variable; *)
(* two values, so that one can replace the other.  Credentials that are    *)
(* all the same, that mix the two values, and one of each length that is   *)
(* not saved or not loaded.                                                *)
(***************************************************************************)
EXTENDS EnvStore

MCCredKeys  == {"APP_ID", "API_KEY"}
MCPlainKeys == {"TZ"}
MCValues    == {"v1", "v2"}
MCLinkKeys  == {[APP_ID |-> "v1", API_KEY |-> "v1"], [APP_ID |-> "v2", API_KEY |-> "v1"],
                [APP_ID |-> "v256", API_KEY |-> "v2"], [APP_ID |-> "v2", API_KEY |-> "v257"]}
=============================================================================
