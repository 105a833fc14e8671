----------------------------- MODULE AuthConfig -----------------------------
(***************************************************************************)
(* How the environment of the process decides who answers a login code:    *)
(* the platform (TikTok OAuth, with the client key and secret of a game)   *)
(* or the mock that takes the code for the player's id.                    *)
(*                                                                         *)
(* An environment holds the values of RANK_AUTH_MODE, RANK_AUTH_CHANNEL_MAP, *)
(* RANK_TT_CLIENT_KEY, RANK_TT_CLIENT_SECRET and RANK_TT_CLIENT_SECRETS    *)
(* once split at commas and colons; Unset is an empty string.              *)
(***************************************************************************)
EXTENDS Integers, TLC

Unset == ""

\* NoPair: no provider for the platform.
Pair(key, secret) == [key |-> key, secret |-> secret]
NoPair == Pair(Unset, Unset)
Complete(pair) == pair.key # Unset /\ pair.secret # Unset

-----------------------------------------------------------------------------
(* Reading the environment *)

NormalizeAuthMode(name) ==
    CASE name \in {"mock", "dev", "test"}          -> "mock"
      [] name \in {"tiktok", "tt", "tiktok_minis"} -> "tiktok"
      [] OTHER                                     -> Unset

ParseAuthModes(names) ==
    LET known == {NormalizeAuthMode(name) : name \in names} \ {Unset}
    IN  IF known = {} THEN {"mock"} ELSE known

\* The map that the good ones of a list of pairs are read into: a later pair
\* replaces an earlier one.
LastOf(pairs, good) ==
    [k \in {pairs[i][1] : i \in good} |->
        LET i == CHOOSE i \in good :
                    pairs[i][1] = k /\ \A j \in good : pairs[j][1] = k => j <= i
        IN  pairs[i][2]]

ParseChannelMap(pairs) ==
    LET map == LastOf(pairs, {i \in DOMAIN pairs : /\ pairs[i][1] # Unset
                                                  /\ NormalizeAuthMode(pairs[i][2]) # Unset})
    IN  [channel \in DOMAIN map |-> NormalizeAuthMode(map[channel])]

ParseClientSecrets(pairs) ==
    LastOf(pairs, {i \in DOMAIN pairs : pairs[i][1] # Unset /\ pairs[i][2] # Unset})

\* The single pair of older installations joins the map, unless it is there.
Load(env) ==
    LET given  == ParseClientSecrets(env.secrets)
        legacy == Pair(env.key, env.secret)
    IN  [modes   |-> ParseAuthModes(env.modes),
         map     |-> ParseChannelMap(env.map),
         legacy  |-> legacy,
         secrets |-> IF Complete(legacy) THEN given @@ (env.key :> env.secret) ELSE given]

-----------------------------------------------------------------------------
(* The provider of a channel *)

AuthModeEnabled(cfg, mode) == mode \in cfg.modes

TikTokReady(cfg) == DOMAIN cfg.secrets # {} \/ Complete(cfg.legacy)

\* Fault: the credentials are not looked at.
ModeWithoutReady(cfg, channel) ==
    LET mode == IF channel \in DOMAIN cfg.map THEN cfg.map[channel]
                ELSE IF channel \in {"tiktok_minis", "douyin"} THEN "tiktok" ELSE "mock"
    IN  IF AuthModeEnabled(cfg, mode) THEN mode ELSE "mock"

\* What the map says, or else the platform for its own two channels; the mock
\* wherever the mode is not enabled or has no credentials.
ModeForChannel(cfg, channel) ==
    LET mode == IF channel \in DOMAIN cfg.map THEN cfg.map[channel]
                ELSE IF channel \in {"tiktok_minis", "douyin"} THEN "tiktok" ELSE "mock"
    IN  IF AuthModeEnabled(cfg, mode) /\ (mode = "tiktok" => TikTokReady(cfg))
        THEN mode ELSE "mock"

\* Fault: only the single pair is looked at.
LegacySecret(cfg, key) == IF key = cfg.legacy.key THEN cfg.legacy.secret ELSE Unset

SecretForClientKey(cfg, key) ==
    IF key \in DOMAIN cfg.secrets THEN cfg.secrets[key]
    ELSE IF key = cfg.legacy.key THEN cfg.legacy.secret ELSE Unset

\* Fault: no provider without the single pair.
LegacyStack(cfg) ==
    {IF AuthModeEnabled(cfg, "tiktok") /\ Complete(cfg.legacy) THEN cfg.legacy ELSE NoPair}

\* The pairs login and sync may use from this start on: the single pair, or any
\* entry of the map, as Go leaves the order of its iteration open.
BuildAuthStack(cfg) ==
    IF ~AuthModeEnabled(cfg, "tiktok") \/ ~TikTokReady(cfg) THEN {NoPair}
    ELSE IF Complete(cfg.legacy) THEN {cfg.legacy}
    ELSE {Pair(key, cfg.secrets[key]) : key \in DOMAIN cfg.secrets}
=============================================================================
