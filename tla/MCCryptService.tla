--------------------------- MODULE MCCryptService ---------------------------
(* Small instances of CryptService for TLC. *)
EXTENDS CryptService, TLC

CONSTANTS t1, t2, s1, s2

\* A master playlist, one of each provider, an ordinary one, one that only a
\* script can decrypt, and one without segments.
SomeUrls == {"master", "aliyun", "tencent", "sample", "empty"}
SomeWeb ==
  [u \in SomeUrls |->
     CASE u = "master" -> [kind |-> "master", first |-> "aliyun"]
       [] u = "aliyun" -> [kind |-> "media", signature |-> Aliyun, keys |-> <<"AES-128">>]
       [] u = "tencent" -> [kind |-> "media", signature |-> Tencent, keys |-> <<"AES-128">>]
       [] u = "sample" -> [kind |-> "media", signature |-> Nobody,
                           keys |-> <<"SAMPLE-AES", "NONE">>]
       [] OTHER -> [kind |-> "empty"]]

\* s1 by the command line, s2 by a rule for AES-128, s1 found for SAMPLE-AES, and
\* s1 and s2 with all sets of hooks.
SomeConfigs ==
  {c \in [cli : {s1, Nobody},
          rule : {[m \in Method |-> IF m = "AES-128" THEN s ELSE Nobody] : s \in {s2, Nobody}},
          auto : {[m \in Method |-> IF m = "SAMPLE-AES" THEN s ELSE Nobody] : s \in {s1, Nobody}},
          hooks : [Script -> SUBSET Hook]] : c.hooks[s1] = c.hooks[s2]}
=============================================================================
