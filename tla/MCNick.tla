------------------------------- MODULE MCNick -------------------------------
(* Instance of Nick for TLC: two nicks to prefer; other users may take one   *)
(* of them and its first alternative.                                       *)
EXTENDS Nick

MCPreferred == {<<"p">>, <<"q">>}
MCContested == {<<"p">>, Alternative(<<"p">>, 0)}
MCGuest == <<"guest">>
MCNoNick == <<>>
=============================================================================
