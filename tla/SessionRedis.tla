---------------------------- MODULE SessionRedis ----------------------------
(***************************************************************************)
(* The Redis key "session:<uuid>" and the three commands the backend uses  *)
(* on it, with the reply codes and expiration arguments of go-redis v8.    *)
(*                                                                         *)
(* Time is counted in ticks and is relative: a key holds the ticks it has  *)
(* left.  A key with 0 ticks left is in its last half second: it is still  *)
(* readable, TTL (which Redis rounds to seconds) answers 0, and it         *)
(* disappears before the next tick.                                        *)
(***************************************************************************)
EXTENDS Integers

CONSTANTS
    Conns,      \* tunnels to guacd, named by the connection id guacd returns
    NoConn,     \* the empty TunnelConnectionID, an empty map entry
    NoKey       \* the value of a Redis key that does not exist

Persistent == -1    \* TTL's reply for a key without expiration
Missing    == -2    \* TTL's reply for a key that does not exist
KeepTTL    == -1    \* go-redis' Set argument that asks for KEEPTTL
Unset      == -1    \* the zero time.Time

(***************************************************************************)
(* The JSON document, reduced to what later decisions read.  expireAt is   *)
(* the time until ExpireAt (0: passed).  CreatedAt, TimeoutDuration and    *)
(* ExpireAt are always zero together, so expireAt stands for the three.    *)
(***************************************************************************)
SessionData == [expireAt : Nat \cup {Unset},
                share    : BOOLEAN,
                tunnel   : Conns \cup {NoConn}]

SessionKey == [ttl : Nat \cup {Persistent}, data : SessionData]

(* What DeployOffice and DeployBrowser store: no times, no tunnel. *)
NewSession(share) ==
    [expireAt |-> Unset, share |-> share, tunnel |-> NoConn]

(* Go's zero SessionData: a handler that holds no copy of the session. *)
NoData == NewSession(FALSE)

(* TTL: the two codes come back as -1ns and -2ns, not as seconds. *)
RedisTTL(key) == IF key = NoKey THEN Missing ELSE key.ttl

(***************************************************************************)
(* SET key data expiration.  Only a positive expiration makes the key      *)
(* expire; KEEPTTL keeps the time of a key that exists; every other value, *)
(* the -2ns of a missed TTL and a negative time.Until included, is sent    *)
(* without an expiration and makes the key persistent.                     *)
(***************************************************************************)
RedisSet(key, data, expiration) ==
    IF expiration > 0
    THEN [ttl |-> expiration, data |-> data]
    ELSE IF expiration = KeepTTL /\ key # NoKey
         THEN [ttl |-> key.ttl, data |-> data]
         ELSE [ttl |-> Persistent, data |-> data]

(* Wrong on purpose: runs below zero. *)
Elapse_NoFloor(t) == t - 1

(* One tick off a timer that is running. *)
Elapse(t) == IF t > 0 THEN t - 1 ELSE t

AgeKey(key) ==
    IF key = NoKey
    THEN NoKey
    ELSE [ttl  |-> Elapse(key.ttl),
          data |-> [key.data EXCEPT !.expireAt = Elapse(@)]]

(* Wrong on purpose: takes a key that is gone for one with time left. *)
TimeIsUp_MissingIsFine(key) == RedisTTL(key) \in {0, Persistent}

(* Wrong on purpose: takes "no expiration" for time left. *)
TimeIsUp_PersistentIsFine(key) == RedisTTL(key) \in {0, Missing}

(* An error of GetSessionTimeLeft (no key, no expiration), or nothing left. *)
TimeIsUp(key) == RedisTTL(key) <= 0
=============================================================================
