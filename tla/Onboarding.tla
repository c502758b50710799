------------------------------ MODULE Onboarding ------------------------------
(***************************************************************************)
(* How one browser or phone comes to its identity key: registration and    *)
(* login (LoginForm, RegisterForm, LoginScreen, RegisterScreen) over the   *)
(* key store of shared/crypto/e2ee.ts, which is IndexedDB with a record    *)
(* per key on the web and one slot of the secure storage on the phone.     *)
(*                                                                         *)
(* A form waits for the store, the key generator and the server, and goes  *)
(* on when the user has left it for the other form: attempts overlap.  The *)
(* server is taken as auth/service.py answers; Sessions has its details.   *)
(***************************************************************************)
EXTENDS Naturals, FiniteSets, Clients

CONSTANTS Users,
          Keys,     \* identity keys, numbered in the order of their fingerprints
          Attempts  \* forms that can be under way at once

ASSUME KeysAssumption == Keys \subseteq Nat /\ None \notin Keys

VARIABLES
  kept,       \* the keys in the store
  generated,  \* keys generated so far
  attempt,    \* the forms under way
  accounts,   \* users the server knows
  devices,    \* the devices it has for them here: <<user, key>>
  session,    \* whose session and device this client has
  contended,  \* two attempts were under way at once (history)
  unsaved     \* the phone could not save a key (history)

server == <<accounts, devices>>
onboarding_history == <<contended, unsaved>>
onboarding_vars == <<platform, kept, generated, attempt, server, session, onboarding_history>>

NoForm == [pc |-> "idle"]
NoSession == [user |-> None, key |-> None, by |-> None]

OnboardingTypeOK ==
  /\ platform \in Platforms
  /\ kept \subseteq generated /\ generated \subseteq Keys
  /\ Mobile => Cardinality(kept) <= 1
  /\ \A a \in Attempts : attempt[a] = NoForm \/
       attempt[a] \in [pc : {"store", "post", "answer"}, kind : {"login", "register"},
                       user : Users, key : generated]
  /\ accounts \subseteq Users /\ devices \subseteq accounts \X generated
  /\ session \in {NoSession} \cup [user : accounts, key : generated, by : {"login", "register"}]
  /\ contended \in BOOLEAN /\ unsaved \in BOOLEAN

OnboardingInit ==
  /\ platform \in Platforms
  /\ kept = {} /\ generated = {}
  /\ attempt = [a \in Attempts |-> NoForm]
  /\ accounts = {} /\ devices = {} /\ session = NoSession
  /\ contended = FALSE /\ unsaved = FALSE

-----------------------------------------------------------------------------
(* The key store                                                           *)

\* getAll() returns the records by fingerprint, and the first one is taken.
loadMyKeyPair == {k \in kept : \A other \in kept : k <= other}

\* The slot, empty or not.
loadIdentityKey == kept

Loaded == IF Web THEN loadMyKeyPair ELSE loadIdentityKey

storeKeyPair(k) == kept \cup {k}

storeIdentityKey(k) == {k}

\* generateIdentityKeyPair: a key nobody has.
Generates(k) == k \in Keys \ generated /\ generated' = generated \cup {k}

-----------------------------------------------------------------------------
(* The forms                                                               *)

\* A guest sees the form, and its button is enabled.
FormShown(a) == session = NoSession /\ attempt[a] = NoForm

Begins(a, kind, u, k, pc) ==
  /\ FormShown(a)
  /\ attempt' = [attempt EXCEPT ![a] = [pc |-> pc, kind |-> kind, user |-> u, key |-> k]]
  /\ contended' = (contended \/ \E b \in Attempts : attempt[b] # NoForm)
  /\ UNCHANGED <<platform, kept, server, session, unsaved>>

\* DEFECT (mutant): the last key stored is taken for the login.
LastKey == {k \in kept : \A other \in kept : other <= k}

\* The key a login presents, if there is one.
StoredKey == Loaded

WebLogin(a, u) ==
  /\ Web
  /\ IF StoredKey # {}
     THEN \E k \in StoredKey : Begins(a, "login", u, k, "post") /\ UNCHANGED generated
     ELSE \E k \in Keys : Generates(k) /\ Begins(a, "login", u, k, "store")

\* A slot that cannot be read is taken for an empty one.
MobileLogin(a, u, read) ==
  /\ Mobile
  /\ IF read /\ StoredKey # {}
     THEN \E k \in StoredKey : Begins(a, "login", u, k, "post") /\ UNCHANGED generated
     ELSE \E k \in Keys : Generates(k) /\ Begins(a, "login", u, k, "store")

\* A registration has a key of its own, whatever the store has.
WebRegister(a, u) ==
  /\ Web
  /\ \E k \in Keys : Generates(k) /\ Begins(a, "register", u, k, "store")

MobileRegister(a, u) ==
  /\ Mobile
  /\ \E k \in Keys : Generates(k) /\ Begins(a, "register", u, k, "store")

Goes(a, pc) == attempt' = [attempt EXCEPT ![a].pc = pc]

WebStores(a) ==
  /\ Web /\ attempt[a].pc = "store"
  /\ kept' = storeKeyPair(attempt[a].key)
  /\ Goes(a, "post")
  /\ UNCHANGED <<platform, generated, server, session, onboarding_history>>

\* If the secure storage fails, the form goes on without.
MobileStores(a, saved) ==
  /\ Mobile /\ attempt[a].pc = "store"
  /\ kept' = IF saved THEN storeIdentityKey(attempt[a].key) ELSE kept
  /\ unsaved' = (unsaved \/ ~saved)
  /\ Goes(a, "post")
  /\ UNCHANGED <<platform, generated, server, session, contended>>

\* auth/register: the account and its first device, unless the name is taken.
Registered(a) ==
  /\ attempt[a].pc = "post" /\ attempt[a].kind = "register"
  /\ attempt[a].user \notin accounts
  /\ accounts' = accounts \cup {attempt[a].user}
  /\ devices' = devices \cup {<<attempt[a].user, attempt[a].key>>}
  /\ Goes(a, "answer")
  /\ UNCHANGED <<platform, kept, generated, session, onboarding_history>>

\* auth/login: the device with this key, or a new one.
LoggedIn(a) ==
  /\ attempt[a].pc = "post" /\ attempt[a].kind = "login"
  /\ attempt[a].user \in accounts
  /\ devices' = devices \cup {<<attempt[a].user, attempt[a].key>>}
  /\ Goes(a, "answer")
  /\ UNCHANGED <<platform, kept, generated, accounts, session, onboarding_history>>

\* The form fails: the browser's store, the server's refusal, a lost answer.
Fails(a) ==
  /\ attempt[a] # NoForm
  /\ attempt[a].pc = "store" => Web
  /\ attempt' = [attempt EXCEPT ![a] = NoForm]
  /\ UNCHANGED <<platform, kept, generated, server, session, onboarding_history>>

\* setSession, also if another attempt has logged in meanwhile.
Succeeds(a) ==
  /\ attempt[a].pc = "answer"
  /\ session' = [user |-> attempt[a].user, key |-> attempt[a].key, by |-> attempt[a].kind]
  /\ attempt' = [attempt EXCEPT ![a] = NoForm]
  /\ UNCHANGED <<platform, kept, generated, server, onboarding_history>>

\* The keys stay: they belong to the device.
LogsOut ==
  /\ session # NoSession
  /\ session' = NoSession
  /\ UNCHANGED <<platform, kept, generated, attempt, server, onboarding_history>>

\* The page is reloaded or the app killed; session and keys are persistent.
Restarts ==
  /\ attempt' = [a \in Attempts |-> NoForm]
  /\ UNCHANGED <<platform, kept, generated, server, session, onboarding_history>>

OnboardingNext ==
  \/ \E a \in Attempts, u \in Users : \/ WebLogin(a, u)
                                      \/ \E read \in BOOLEAN : MobileLogin(a, u, read)
                                      \/ WebRegister(a, u) \/ MobileRegister(a, u)
  \/ \E a \in Attempts : \/ WebStores(a)
                         \/ \E saved \in BOOLEAN : MobileStores(a, saved)
                         \/ Registered(a) \/ LoggedIn(a) \/ Fails(a) \/ Succeeds(a)
  \/ LogsOut
  \/ Restarts

OnboardingSpec == OnboardingInit /\ [][OnboardingNext]_onboarding_vars

-----------------------------------------------------------------------------
(* Properties                                                              *)

\* The key with which this client derives what it shares with others is the
\* one the server shows them for its device, across failed attempts, logouts,
\* accounts and restarts: always on a phone and after a web login, and after
\* a web registration if it left one key in the store; unless attempts
\* overlapped or the phone could not save a key.
KeyMatchesDevice ==
  /\ OnboardingTypeOK
  /\ session # NoSession /\ ~contended /\ ~unsaved =>
       (Mobile \/ session.by = "login" \/ Cardinality(kept) = 1 => Loaded = {session.key})
  \* A browser has the private key of each device the server got from it,
  \* wherever an attempt was interrupted and however attempts overlapped.
  /\ Web => \A d \in devices : d[2] \in kept
=============================================================================
