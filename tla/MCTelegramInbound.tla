------------------------- MODULE MCTelegramInbound -------------------------
(* Small instances of TelegramInbound for TLC.                             *)
EXTENDS TelegramInbound

\* Pairing, and an allowlist of one person.
MCConfigs == {[mode |-> "pairing", allow |-> {}],
              [mode |-> "allowlist", allow |-> {CHOOSE p \in Senders: TRUE}]}
=============================================================================
