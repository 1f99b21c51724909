----------------------------- MODULE MCFrontEnd -----------------------------
(***************************************************************************)
(* Instances of FrontEnd and of UrlCodec for TLC.  The two share nothing:  *)
(* one run explores both.                                                  *)
(***************************************************************************)
EXTENDS FrontEnd, UrlCodec

Get(query, origin) == [method |-> "GET", query |-> query, origin |-> origin]
Post(query, origin) == [method |-> "POST", query |-> query, origin |-> origin]

TwoSids == {"s1", "s2"}

(* Two entries match channel b: the first of them limits origins. *)
MCResources ==
    <<[key |-> {"a"}, proto |-> "tcp", origins |-> NULL],
      [key |-> {"w"}, proto |-> "websocket", origins |-> NULL],
      [key |-> {"b"}, proto |-> "tcp", origins |-> {"home"}],
      [key |-> {"b", "w"}, proto |-> "tcp", origins |-> NULL]>>

Connect(channel, origin) == Get(<<<<"c", "connect">>, <<"ch", channel>>>>, origin)

Connects ==
    {Connect("a", "away"), Connect("b", "home"), Connect("b", "away"),
     Connect("w", ""), Connect("", "home")}

Gets ==
    {Get(<<>>, ""),
     Get(<<<<"sid", "s1">>, <<"c", "poll">>>>, ""),
     Get(<<<<"c", "poll">>>>, ""),
     Get(<<<<"sid", "s1">>, <<"c", "disconnect">>, <<"c", "poll">>>>, ""),
     Get(<<<<"sid", "s1">>, <<"c", "connect">>, <<"ch", "a">>>>, "")}

MCPosts ==
    {Post(<<<<"sid", "s1">>, <<"data", "m1">>>>, "home"),
     Post(<<<<"junk">>, <<"sid", "s2">>, <<"data", "m2">>, <<"data", "m3">>>>, "away"),
     Post(<<<<"sid", "s1">>>>, ""), Post(<<>>, "home")}

MCRequests ==
    Connects \cup Gets \cup MCPosts \cup {[method |-> "PUT", query |-> <<>>, origin |-> ""]}

(* ' ', '%', '+', '-', '4', 'F', 'f', 'g', 0x80 and 0xe9: kept, replaced,  *)
(* escaped; hexadecimal digits of each kind and bytes that are none.       *)
MCByte == {32, 37, 43, 45, 52, 70, 102, 103, 128, 233}

(* Every text is encoded and decoded; requests come after the empty one,   *)
(* with the codec at rest.                                                 *)
MCInit == Init /\ CodecInit

MCNext ==
    \/ CodecNext /\ UNCHANGED vars
    \/ fn = "done" /\ text = NoText /\ str = <<>> /\ Next /\ UNCHANGED codecVars

MCSpec == MCInit /\ [][MCNext]_<<vars, codecVars>>
=============================================================================
