--------------------------- MODULE CredentialStore ---------------------------
(***************************************************************************)
(* The operating system's credential store (internal/credential): the macOS *)
(* Keychain through its command line, the Secret Service of a Linux session  *)
(* over D-Bus, the Windows Credential Manager. An item is named by an        *)
(* account: the device a credential belongs to or, before that device has a  *)
(* name, the Project that moves.                                             *)
(*                                                                          *)
(* Every call answers or fails as a whole; the argument ok says which. Only  *)
(* a Secret Service may first have to ask the member to unlock the keyring.  *)
(***************************************************************************)
EXTENDS Naturals

VARIABLES
  store,    \* "keychain", "secretservice" or "credman"
  ring,     \* the keyring is "open" or "locked"
  keys,     \* devices whose credential is stored
  pending   \* the credential stored for each Project that moves, 0 for none

vault == <<store, ring, keys, pending>>

Stores == {"keychain", "secretservice", "credman"}

\* The dialog is answered, or dismissed, or times out with the keyring as it was.
AwaitPrompt(ok) ==
  /\ ring = "locked"
  /\ ring' = IF ok THEN "open" ELSE ring

\* An open keyring needs no prompt.
Unlock(ok) ==
  \/ ring = "open" /\ ok /\ UNCHANGED ring
  \/ AwaitPrompt(ok)

\* No session bus, no provider, or a call that fails.
NoSession(ok) == ~ok /\ UNCHANGED ring

\* The default collection before a write, the items found before a read or a
\* deletion.
SecretService(ok) == NoSession(ok) \/ Unlock(ok)

\* /usr/bin/security runs to its end or is killed.
Keychain(ok) == ok \in BOOLEAN /\ UNCHANGED ring

\* CredWriteW, CredReadW and CredDeleteW.
CredentialManager(ok) == ok \in BOOLEAN /\ UNCHANGED ring

Reached(ok) ==
  /\ CASE store = "secretservice" -> SecretService(ok)
       [] store = "keychain" -> Keychain(ok)
       [] OTHER -> CredentialManager(ok)
  /\ UNCHANGED store

\* Put replaces what the account held, on every platform.
PutDevice(t, ok) ==
  /\ Reached(ok)
  /\ keys' = IF ok THEN keys \cup {t} ELSE keys
  /\ UNCHANGED pending

PutPending(p, t, ok) ==
  /\ Reached(ok)
  /\ pending' = IF ok THEN [pending EXCEPT ![p] = t] ELSE pending
  /\ UNCHANGED keys

Get(ok) == Reached(ok) /\ UNCHANGED <<keys, pending>>

DeleteDevice(t, ok) ==
  /\ Reached(ok)
  /\ keys' = IF ok THEN keys \ {t} ELSE keys
  /\ UNCHANGED pending

DeletePending(p, ok) ==
  /\ Reached(ok)
  /\ pending' = IF ok THEN [pending EXCEPT ![p] = 0] ELSE pending
  /\ UNCHANGED keys

\* The desktop session locks the login keyring.
Lock ==
  /\ store = "secretservice" /\ ring = "open"
  /\ ring' = "locked"
  /\ UNCHANGED <<store, keys, pending>>

=============================================================================
