\* Every operator alone and eight two-stage chains, over every source of at
\* most three items and each way of ending.
CONSTANTS
  Values = {v1, v2}
  MaxItems = 3
  None = None
  Chains <- MCChains
SPECIFICATION Spec
PROPERTY RefinesStreamReference
