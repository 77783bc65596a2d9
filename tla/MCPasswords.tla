---------------------------- MODULE MCPasswords ----------------------------
EXTENDS Passwords, TLC
(* An accented passphrase in two spellings; 256 syllables of hangul, three *)
(* times as long in jamo; 86 musical notes that NFC takes apart into 258   *)
(* characters; a text of 14 characters; another good one.                  *)
Texts == {"composed", "combining", "hangul", "jamo", "growing", "grown", "short", "other"}
Normal == [t \in Texts |-> CASE t = "combining" -> "composed"
                             [] t = "jamo"      -> "hangul"
                             [] t = "growing"   -> "grown"
                             [] OTHER           -> t]
Size   == "composed" :> 29 @@ "combining" :> 30 @@ "hangul" :> 768 @@ "jamo" :> 2304
            @@ "growing" :> 344 @@ "grown" :> 1032 @@ "short" :> 14 @@ "other" :> 20
Count  == "composed" :> 28 @@ "combining" :> 29 @@ "hangul" :> 256 @@ "jamo" :> 768
            @@ "growing" :> 86 @@ "grown" :> 258 @@ "short" :> 14 @@ "other" :> 20
Lengths == 15..256
Lists   == {{}, {"composed"}, {"hangul", "other"}}
=============================================================================
