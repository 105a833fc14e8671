------------------------------ MODULE MCGateway ------------------------------
(* Instances of Gateway for TLC. *)
EXTENDS GatewayProps

TikTok == <<"tiktok", "minis">>
Weixin == <<"weixin">>
Parking == <<"parking", "smart", "brain">>
Vampire == <<"vampire", "dormitory">>
\* The same open id on every channel, with an underscore in it.
Open == <<"u", "1">>

Home(app, channel) == [app |-> app, channel |-> channel, open |-> Open]

\* One person plays one game on TikTok, the other two games on two channels.
TwoPeople == [d1 |-> {Home(Parking, TikTok)},
              d2 |-> {Home(Parking, Weixin), Home(Vampire, TikTok)}]

Carries(app, channel, id) == [app |-> app, channel |-> channel, id |-> id]

\* The first one's app and channel are the defaults and may be left out, the
\* second one always names them.
CarefulForms ==
    [d1 |-> {Carries(FALSE, FALSE, "open_id"), Carries(TRUE, FALSE, "open_id"),
             Carries(TRUE, TRUE, "none")},
     d2 |-> {Carries(TRUE, TRUE, "open_id"), Carries(TRUE, TRUE, "none")}]

\* The player_id of the last login instead of the open id.
PlayerIdForms == [d1 |-> {Carries(TRUE, TRUE, "player_id")}, d2 |-> {Carries(TRUE, TRUE, "open_id")}]

SomeSpecs == {<<>>, <<"day", "year">>, <<"all", "full", "year">>}
SomeWindows == {"all", "unnamed"}
=============================================================================
