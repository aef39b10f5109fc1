SPECIFICATION Spec
CONSTANTS
  Unset = Unset
  someone = someone
  short = short
  long = long
  Emails <- MCEmails
  Passwords <- MCPasswords
  Acceptable <- MCAcceptable
  MaxStarts = 2
INVARIANT
  AdminExistsWhenServing
