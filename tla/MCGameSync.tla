----------------------------- MODULE MCGameSync -----------------------------
(* Two roles, one with an fd that could not be had (-1) and a name that is   *)
(* not UTF-8, in a world of three columns and three rows.                    *)
EXTENDS GameSync
MCId   == ("r1" :> 100) @@ ("r2" :> -1)
MCName == ("r1" :> "kabi") @@ ("r2" :> "bad")
MCOtherNames == {<<>>, <<"Login">>, <<"game", "Login", "makeLogin">>,
                 <<"Login", "makeLogout">>}
=============================================================================
