SPECIFICATION LiveSpec
CONSTANTS
  Client = {r1, r2}
  Challenge = {c1, c2}
  selfChange = selfChange
  login = login
  PrivateScope = {selfChange}
  PublicScope = {login}
  NoScope = NoScope
  NoChallenge = NoChallenge
  MaxOperations = 1
  Bucket = {"create_authenticated_captcha", "change_my_password", "create_public_captcha"}
  Limit <- MCLimit
  Flow = {"create_authenticated_captcha", "change_my_password", "create_public_captcha"}
  Protected = {"create_authenticated_captcha", "change_my_password"}
  IssuesTo <- MCIssuesTo
  AnswersFor <- MCAnswersFor
  BucketOf <- MCBucketOf
  Operations <- MCOperations
INVARIANTS WorkersBounded QuotaKept WorkPaidByCaptcha
PROPERTIES CaptchaPromiseKept EveryRequestEnds
