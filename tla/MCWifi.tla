------------------------------- MODULE MCWifi -------------------------------
(* Two slots and three networks: one in reach, one the sketch names, and    *)
(* one an older firmware has left.                                          *)
EXTENDS WifiManager, TLC

CONSTANTS home, shop, old, nossid, pw, other, nopw

Net(s, p) == [ssid |-> s, pw |-> p]
ThreeNets == {home, shop, old}
TwoPws == {pw, other}
ShopOnly == <<Net(shop, other)>>
OldOrNone == {Net(old, other)}
HomeWorks == {Net(home, pw)}
SomeLists == {<<>>, <<Net(home, pw)>>, <<Net(shop, nopw), Net(home, pw)>>,
              <<Net(home, nopw), Net(shop, nopw)>>}
SomeForms == {Net(home, pw), Net(home, nopw)}
=============================================================================
