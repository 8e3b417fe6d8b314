---------------------------- MODULE CaptureKeys ----------------------------
(***************************************************************************)
(* The capture keys of one person on one device (auth.py, scim.py).  A     *)
(* capture key is bound to its person only by their address, so a          *)
(* deactivation revokes the keys at the address it loaded, and a rename    *)
(* moves them.  When the device connects again its key is rotated in       *)
(* place: the token that was handed out last is the one that works.        *)
(* A presented key is refused when the account at its address is inactive; *)
(* an address of no account is a service's, and is let through             *)
(* (gateway.py).                                                           *)
(***************************************************************************)
EXTENDS Naturals, FiniteSets, Sequences

CONSTANTS
    Handlers,     \* requests
    NAddresses,   \* bound: addresses the person has, one after another
    MaxKeys,      \* bound: rows
    MaxRequests   \* bound

KeysAssumption ==
    /\ IsFiniteSet(Handlers) /\ {NAddresses, MaxKeys, MaxRequests} \subseteq Nat
    /\ NAddresses # 0

Addresses == 1 .. NAddresses

VARIABLES
    address, enabled,   \* the account: email, active
    keys,               \* the rows, the oldest first: actor, active, and whose token
    handler,            \* handler[h]
    handed,             \* the connect whose token was handed out last
    spoilt,             \* history: that connect overlapped a deactivation, or one came after
    doubled,            \* history: two connects overlapped
    astray,             \* history: a rename overlapped a connect, or another rename
    requests

captureVars == <<address, enabled, keys, handler, handed, spoilt, doubled, astray, requests>>

Kinds == {"connect", "rename", "deactivate"}
Idle == [at |-> "idle", kind |-> "connect", email |-> 0, found |-> {}, to |-> 0, number |-> 0,
         late |-> FALSE]

TypeOK ==
    /\ address \in Addresses /\ enabled \in BOOLEAN
    /\ Len(keys) <= MaxKeys
    /\ \A k \in DOMAIN keys :
          keys[k] \in [actor : Addresses, active : BOOLEAN, token : 1 .. MaxRequests]
    /\ handler \in [Handlers ->
           [at : {"idle", "loaded", "found"}, kind : Kinds, email : 0 .. NAddresses,
            found : SUBSET (1 .. MaxKeys), to : 0 .. NAddresses, number : 0 .. MaxRequests,
            late : BOOLEAN]]
    /\ handed \in 0 .. MaxRequests /\ requests \in 0 .. MaxRequests
    /\ spoilt \in BOOLEAN /\ doubled \in BOOLEAN /\ astray \in BOOLEAN

Init ==
    /\ address = 1 /\ enabled = TRUE /\ keys = <<>>
    /\ handler = [h \in Handlers |-> Idle]
    /\ handed = 0 /\ spoilt = FALSE /\ doubled = FALSE /\ astray = FALSE /\ requests = 0

Under(kind) == {h \in Handlers : handler[h].at # "idle" /\ handler[h].kind = kind}

\* The active keys at an address.
At(a) == {k \in DOMAIN keys : keys[k].active /\ keys[k].actor = a}

\* _key_user_live: the account at the key's address, if there is one, is active.
Works(k) == keys[k].active /\ (keys[k].actor = address => enabled)

-----------------------------------------------------------------------------
(***************************************************************************)
(* A request loads the account.  Connecting takes a live session; an       *)
(* inactive account is not deactivated again; a rename gives an address    *)
(* that is not the account's.                                              *)
(***************************************************************************)
Load(h, kind) ==
    /\ handler[h].at = "idle" /\ requests < MaxRequests
    /\ kind \in {"connect", "deactivate"} => enabled
    /\ kind = "rename" => address + Cardinality(Under("rename")) < NAddresses
    /\ requests' = requests + 1
    /\ handler' = [handler EXCEPT ![h] =
           [at |-> "loaded", kind |-> kind, email |-> address, found |-> {},
            to |-> IF kind = "rename" THEN address + Cardinality(Under("rename")) + 1 ELSE 0,
            number |-> requests + 1, late |-> FALSE]]
    /\ doubled' = (doubled \/ (kind = "connect" /\ Under("connect") # {}))
    /\ astray' = (astray \/ (kind = "connect" /\ Under("rename") # {})
                         \/ (kind = "rename" /\ Under("rename") \cup Under("connect") # {}))
    /\ UNCHANGED <<address, enabled, keys, handed, spoilt>>

Newest(ks) == {k \in ks : \A i \in ks : i <= k}

\* Mutant of Wanted: a revoked key of the device is rotated too.
WantedEvenRevoked(kind, email) ==
    IF kind = "connect" THEN Newest({k \in DOMAIN keys : keys[k].actor = email}) ELSE At(email)

\* The keys a request asks for: the device's newest, or all of the address.
Wanted(kind, email) == IF kind = "connect" THEN Newest(At(email)) ELSE At(email)

\* The statement that reads the keys; a rename's locks them.
Find(h) ==
    /\ handler[h].at = "loaded"
    /\ handler' = [handler EXCEPT ![h].at = "found",
                       ![h].found = Wanted(handler[h].kind, handler[h].email)]
    /\ UNCHANGED <<address, enabled, keys, handed, spoilt, doubled, astray, requests>>

-----------------------------------------------------------------------------
\* extension_token: the key that was found gets a new token, or a new key is added.
Store(h) ==
    LET c == handler[h]
    IN  /\ c.at = "found" /\ c.kind = "connect"
        /\ \/ /\ c.found # {}
              /\ keys' = [k \in DOMAIN keys |->
                     IF k \in c.found THEN [keys[k] EXCEPT !.token = c.number] ELSE keys[k]]
           \/ /\ c.found = {} /\ Len(keys) < MaxKeys
              /\ keys' = Append(keys, [actor |-> c.email, active |-> TRUE, token |-> c.number])
        /\ handed' = c.number
        /\ spoilt' = c.late
        /\ handler' = [handler EXCEPT ![h] = Idle]
        /\ UNCHANGED <<address, enabled, doubled, astray, requests>>

\* Mutant of Moved: the capture keys stay at the old address.
MovedNowhere(c) == keys

\* repoint_capture_keys: of those it found, the keys that are still active.
Moved(c) ==
    [k \in DOMAIN keys |-> IF k \in c.found /\ keys[k].active /\ keys[k].actor = c.email
                           THEN [keys[k] EXCEPT !.actor = c.to] ELSE keys[k]]

Rename(h) ==
    LET c == handler[h]
    IN  /\ c.at = "found" /\ c.kind = "rename"
        /\ address' = c.to
        /\ keys' = Moved(c)
        /\ handler' = [handler EXCEPT ![h] = Idle]
        /\ UNCHANGED <<enabled, handed, spoilt, doubled, astray, requests>>

\* revoke_user_keys, with the account.
Deactivate(h) ==
    LET c == handler[h]
    IN  /\ c.at = "found" /\ c.kind = "deactivate"
        /\ enabled' = FALSE
        /\ keys' = [k \in DOMAIN keys |->
               IF k \in c.found THEN [keys[k] EXCEPT !.active = FALSE] ELSE keys[k]]
        /\ spoilt' = TRUE
        /\ handler' = [g \in Handlers |->
               IF g = h THEN Idle
               ELSE [handler[g] EXCEPT !.late = handler[g].at # "idle"]]
        /\ UNCHANGED <<address, handed, doubled, astray, requests>>

\* The account is active again; its keys stay as they are.
Reactivate ==
    /\ ~enabled /\ requests < MaxRequests
    /\ requests' = requests + 1
    /\ enabled' = TRUE
    /\ UNCHANGED <<address, keys, handler, handed, spoilt, doubled, astray>>

Next ==
    \/ \E h \in Handlers :
          \/ \E kind \in Kinds : Load(h, kind)
          \/ Find(h) \/ Store(h) \/ Rename(h) \/ Deactivate(h)
    \/ Reactivate

Spec == Init /\ [][Next]_captureVars

-----------------------------------------------------------------------------
(***************************************************************************)
(* No key of somebody who was deactivated is let in, one that was          *)
(* connected during the deactivation neither; a rename that ran beside a   *)
(* connect or another rename leaves keys behind at an address of no        *)
(* account (gateway.py _key_user_live, scim.py _apply_rename).             *)
(***************************************************************************)
LeaverIsOut == ~enabled /\ ~astray => \A k \in DOMAIN keys : ~Works(k)

(***************************************************************************)
(* The token handed out last works while the account is active, unless a   *)
(* deactivation came between (auth.py extension_token).                    *)
(***************************************************************************)
LastHandedWorks ==
    enabled /\ handed # 0 /\ ~spoilt =>
        \E k \in DOMAIN keys : keys[k].token = handed /\ Works(k)

(***************************************************************************)
(* The device keeps one key however often it connects, through renames,    *)
(* unless two connects overlapped (auth.py extension_token, scim.py).      *)
(***************************************************************************)
OneKeyPerDevice ==
    ~doubled /\ ~astray => Cardinality({k \in DOMAIN keys : Works(k)}) <= 1

=============================================================================
