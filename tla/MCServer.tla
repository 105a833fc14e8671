------------------------------ MODULE MCServer ------------------------------
(* Instances of Server for TLC. *)
EXTENDS ServerProps

Env(modes, map, key, secret, secrets) ==
    [modes |-> modes, map |-> map, key |-> key, secret |-> secret, secrets |-> secrets]

\* Two games without the single pair; the single pair with an old secret for a
\* game that has an entry of its own; no credentials at all.
TwoGames == Env({"mock", "tt"}, << <<"weixin", "dev">>, <<"weixin", "other">> >>, Unset, Unset,
                << <<"parking", "s1">>, <<"vampire", "s2">> >>)
SingleAndMap == Env({"tiktok"}, << <<"douyin", "test">> >>, "parking", "old",
                    << <<"parking", "bad">>, <<"parking", "s1">>, <<"vampire", Unset>> >>)
Bare == Env({"mock", "tiktok"}, <<>>, Unset, "s1", <<>>)

AllEnvironments == {TwoGames, SingleAndMap, Bare}

Secrets == [parking |-> "s1", vampire |-> "s2"]

Code(mock, key, person, n) == [mock |-> mock, key |-> key, person |-> person, n |-> n]
ParkingCode == Code(FALSE, "parking", "p", 1)
VampireCode == Code(FALSE, "vampire", "p", 1)
MockCode == Code(TRUE, Unset, "p", 0)
AllCodes == {ParkingCode, VampireCode, MockCode}

Request(kind, code, token, key) ==
    [kind |-> kind, channel |-> "tiktok_minis", code |-> code, token |-> token, key |-> key]

AllRequests ==
    { Request("login", ParkingCode, FALSE, Unset),
      Request("login", MockCode, FALSE, Unset),
      Request("register", ParkingCode, FALSE, Unset),
      Request("profile", ParkingCode, FALSE, "parking"),
      Request("profile", VampireCode, FALSE, "vampire"),
      Request("sync", VampireCode, FALSE, Unset),
      Request("sync", NoCode, TRUE, Unset) }
=============================================================================
