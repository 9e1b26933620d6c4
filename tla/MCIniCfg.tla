------------------------------ MODULE MCIniCfg ------------------------------
(* Two processes and one thread that copies the settings of the first.     *)
EXTENDS IniCfg

Host == [r \in Readers |-> "p1"]

(* By hand a lifetime that the dialog does not offer, and flags nobody     *)
(* knows.                                                                  *)
RawValues ==
  [k \in Keys |-> CASE k = "CompressionLevel" -> {} [] k = "CacheLifetime" -> {7}
                    [] k = "FileTimeFlags" -> {6} [] k = "FileAttrFlags" -> {}]

(* The user picks a level and keeps no times, or types a lifetime and      *)
(* keeps no attributes; the other settings are not touched.                *)
UserChoices ==
  {[k \in {"CompressionLevel", "FileTimeFlags"} |-> IF k = "CompressionLevel" THEN 9 ELSE 0],
   [k \in {"CacheLifetime", "FileAttrFlags"} |-> IF k = "CacheLifetime" THEN -1 ELSE 0]}

Offered == <<2, 5, 12, 20, 60, 180>>

UserLocale == [full |-> "ru-RU", base |-> "ru"]

German == [full |-> "de-AT", base |-> "de"]

NoLanguage == [full |-> "", base |-> ""]

Languages ==
  {[files |-> {"en", "ru", "de"}, wanted |-> German],
   [files |-> {"en", "ru"}, wanted |-> German],
   [files |-> {"en"}, wanted |-> NoLanguage]}

=============================================================================
