SPECIFICATION Spec
CONSTANTS
  ada = ada
  upperAda = upperAda
  adaRetry = adaRetry
  mail1 = mail1
  mail2 = mail2
  tel = tel
  goog = goog
  Uids = {u1, u2}
  Names <- MCNames
  Fold <- MCFold
  Emails = {mail1, mail2}
  Phones = {tel}
  Forms <- MCForms
  Googles = {goog}
  Profile <- MCProfile
  Columns = {"display_name", "avatar_url"}
  Requests = {r1, r2}
  Null = Null
SYMMETRY Symmetry
INVARIANTS
  LatecomersStayOut
  IdentityStaysWiped
  GoogleFindsItsAccount
PROPERTIES
  DeletedAccountIsInert
