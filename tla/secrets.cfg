SPECIFICATION FairSpec
CONSTANTS
    UserKeys <- MCUserKeys
    Tasks <- MCTasks
    Materials <- MCMaterials
    Names <- MCNames
    Values = {v1, v2}
    BatchSize = 1
    NoKey = NoKey
    NoSecret = NoSecret
    NoRow = NoRow
    NoValue = NoValue
    Budgets <- MCBudgets
INVARIANTS SurveyKept Readable
PROPERTIES RekeySound SecretsSettle
CHECK_DEADLOCK FALSE
