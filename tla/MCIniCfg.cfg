SPECIFICATION Spec
CONSTANTS
  Procs = {"p1", "p2"}
  Readers = {"r1"}
  ProcOf <- Host
  Raw <- RawValues
  Picks <- UserChoices
  Lifetimes <- Offered
  Unlimited = 2147483647
  Locale <- UserLocale
  NoLang <- NoLanguage
  Setups <- Languages
  MaxDialogs = 1
  MaxFaults = 1
INVARIANTS TypeOK NoTornCopy LoadsWhole DialogKeepsUntouched
