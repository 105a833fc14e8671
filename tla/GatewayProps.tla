----------------------------- MODULE GatewayProps -----------------------------
(***************************************************************************)
(* The correctness properties of Gateway.                                  *)
(***************************************************************************)
EXTENDS Gateway

\* A token is that of an account of the device that is registered, and names
\* the same player everywhere (auth.go Issue, service.go Login).
SessionIsOwn ==
    \A d \in Devices : session[d] # NoSession =>
        \E h \in Homes[d] \intersect accounts :
            /\ session[d].app = h.app
            /\ session[d].channel = h.channel
            /\ session[d].open = h.open
            /\ session[d].player = AccountID(h.channel, h.open)

\* Every score is stored under the account it was sent for, in the app and on
\* the channel of that account, whichever handler took it, with a session, an
\* expired one or none (docs/register.md: the boards use account_id).
RowsAreMeant ==
    \A r \in rows : /\ r.app = r.meant.app
                    /\ r.channel = r.meant.channel
                    /\ r.player = AccountID(r.meant.channel, r.meant.open)

\* A player whose score was written without naming windows is found when his
\* rank is read without naming one: the defaults of the handlers fit.
DefaultsMeet ==
    [][\A d \in Devices :
          LET seen == reply'[d]
          IN  /\ seen # reply[d]
              /\ seen.kind = "read" /\ seen.status = "ok"
              /\ seen.unnamed /\ seen.player # NoId
              /\ \E r \in rows : r.meant = seen.meant /\ r.unnamed
              => seen.found]_vars
-----------------------------------------------------------------------------
(* What the proofs of GatewayProofs assume of the clients *)

\* Clients do not send a player_id in place of an open id (see RowsAreMeant in
\* the run gw_player_id), leave out only the default app and channel, and that
\* only on a device with a single account.
CarefulClients ==
    \A d \in Devices : \A h \in Homes[d], f \in Forms[d] :
        /\ f.id # "player_id"
        /\ f.app \/ (h.app = DefaultApp /\ Homes[d] = {h})
        /\ f.channel \/ (h.channel = DefaultChannel /\ Homes[d] = {h})

\* A person has one account in an app on a channel.
OneAccountEach ==
    \A d \in Devices : \A g, h \in Homes[d] :
        g.app = h.app /\ g.channel = h.channel => g = h

TokenInv == /\ now \in Nat
            /\ session = [d \in Devices |-> session[d]]
            /\ SessionIsOwn
=============================================================================
