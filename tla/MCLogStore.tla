----------------------------- MODULE MCLogStore -----------------------------
(* Five records over two minutes, two names and two devices, one of which   *)
(* may be forgotten.  Two ticks make a second and two seconds a minute, so  *)
(* a cut-off can fall inside a minute and inside a second of a minute.      *)
EXTENDS LogStore

MCRecord == 1..5
MCTsOf == <<1, 3, 4, 6, 6>>
MCDomainOf == <<"shop", "news", "shop", "news", "shop">>
MCClientOf == <<"tv", "phone", "tv", "tv", "tv">>
MCBlocked == {2, 3}
MCCutoff == {3, 4, 5, 7}
=============================================================================
